---- MODULE Spec2Model ----
(***************************************************************************)
(* A model of ethercat-soem's Master facade: the value codec (src/util.rs),*)
(* the process-data accessor (pdo_values, set_pdo_value, process_data,     *)
(* pdo_offsets) and the PDO assignment resolver (coe_pdo_info) of          *)
(* src/lib.rs.                                                             *)
(*                                                                         *)
(* Conventions.                                                            *)
(*  - A byte is a number in 0..255, a buffer a sequence of bytes.  Rust    *)
(*    indexes from 0, TLA+ sequences from 1: byte k of a Rust slice is     *)
(*    element k+1 here.  Slave position p is element p+1 of a sequence.    *)
(*  - An EntryIdx is the pair <<idx, sub_idx>>.                            *)
(*  - A Value is a record [t |-> variant, x |-> payload]: a BOOLEAN for    *)
(*    Bool, a byte sequence for Raw, U8Array and String, and a number for  *)
(*    every numeric variant (F32 and F64 carry their IEEE bit pattern as   *)
(*    an unsigned number: to_ne_bytes and from_ne_bytes of a float are     *)
(*    those of its bits).                                                  *)
(*  - Native byte order is little endian (the x86 and ARM hosts SOEM runs  *)
(*    on).                                                                 *)
(*  - A Rust Result is [k |-> "Ok", v |-> ...] or [k |-> "Err", e |-> ...],*)
(*    an Error being the tuple of its variant's name and its fields; a     *)
(*    panic is [k |-> "Panic"].                                            *)
(***************************************************************************)
EXTENDS Integers, Sequences, FiniteSets, TLC

VARIABLES
    bus,               \* the slaves on the wire, as the engine sees them
    debug_assertions,  \* the build: TRUE when debug_assert! is compiled in
    slave_count,       \* ctx.slave_count()
    outputs,           \* per slave: Slave::outputs(), a view of the io map
    inputs,            \* per slave: Slave::inputs()
    sdos,              \* Master.sdos: one ObjectDict per scanned slave
    pdo_mapping,       \* Master.pdo_mapping: per position, its PdoAssignments
    last,              \* the last call on the Master and what it returned
    call,              \* the last call of a free function and what it returned
    threads            \* examples/read_sdo.rs: where its two threads stand

vars == <<bus, debug_assertions, slave_count, outputs, inputs, sdos,
          pdo_mapping, last, call, threads>>

\* the element of a one-element set: The({ f(x) : x \in { e } }) is
\* LET x == e IN f(x)
The(S) == CHOOSE x \in S : TRUE

Ok(v) == [k |-> "Ok", v |-> v]
Err(e) == [k |-> "Err", e |-> e]
Panic == [k |-> "Panic"]

----------------------------------------------------------------------------
(* Bytes and numbers                                                       *)

RECURSIVE Pow2(_)
Pow2(n) == IF n = 0 THEN 1 ELSE 2 * Pow2(n - 1)

\* a & b on u8
RECURSIVE BitAnd(_, _)
BitAnd(a, b) ==
    IF a = 0 \/ b = 0 THEN 0
    ELSE (a % 2) * (b % 2) + 2 * BitAnd(a \div 2, b \div 2)

\* a | b on u8
BitOr(a, b) == a + b - BitAnd(a, b)

\* !a on u8
BitNot(a) == 255 - a

\* uN::from_ne_bytes
RECURSIVE FromLE(_)
FromLE(raw) == IF raw = <<>> THEN 0 ELSE raw[1] + 256 * FromLE(Tail(raw))

\* iN::from_ne_bytes: two's complement
FromLESigned(raw) ==
    IF raw[Len(raw)] >= 128
    THEN -(FromLE([i \in 1..Len(raw) |-> 255 - raw[i]])) - 1
    ELSE FromLE(raw)

\* to_ne_bytes of a w-byte integer (x % 256 is in 0..255 for negative x too)
RECURSIVE ToLE(_, _)
ToLE(x, w) == IF w = 0 THEN <<>> ELSE <<x % 256>> \o ToLE(x \div 256, w - 1)

----------------------------------------------------------------------------
(* src/util.rs: the value codec                                            *)

IntWidth(dt) ==
    CASE dt \in {"I8", "U8"} -> 1
      [] dt \in {"I16", "U16"} -> 2
      [] dt \in {"I32", "U32", "F32"} -> 4
      [] dt \in {"I64", "U64", "F64"} -> 8

\* raw.try_into()? for [u8; w]: the slice must have exactly w bytes
TryInto(dt, raw, signed) ==
    IF Len(raw) # IntWidth(dt) THEN Err(<<"ValueConversion">>)
    ELSE Ok([t |-> dt, x |-> IF signed THEN FromLESigned(raw) ELSE FromLE(raw)])

\* String::from_utf8_lossy on bytes that are ASCII or never valid in UTF-8:
\* the result as code points, U+FFFD for each invalid byte
Utf8Lossy(raw) == [i \in 1..Len(raw) |-> IF raw[i] < 128 THEN raw[i] ELSE 65533]

\* (a decode that tests bit 0 whatever the bit offset)
value_from_slice_Bool_bit0(raw, bit_offset) ==
    [t |-> "Bool", x |-> BitAnd(raw[1], 1) # 0]

\* the DataType::Bool arm of value_from_slice
value_from_slice_Bool(raw, bit_offset) ==
    LET bit_mask == Pow2(bit_offset)
    IN  [t |-> "Bool", x |-> BitAnd(raw[1], bit_mask) # 0]

value_from_slice(dt, raw, bit_offset) ==
    IF raw = <<>> THEN
        IF debug_assertions THEN Panic ELSE Err(<<"ValueFromEmptyBuf">>)
    ELSE CASE dt = "Bool" -> Ok(value_from_slice_Bool(raw, bit_offset))
           [] dt = "Byte" -> Ok([t |-> "Byte", x |-> raw[1]])
           [] dt = "I8" ->
                Ok([t |-> "I8", x |-> IF raw[1] >= 128 THEN raw[1] - 256 ELSE raw[1]])
           [] dt \in {"I16", "I32", "I64"} -> TryInto(dt, raw, TRUE)
           [] dt = "U8" -> Ok([t |-> "U8", x |-> raw[1]])
           [] dt \in {"U16", "U32", "U64", "F32", "F64"} -> TryInto(dt, raw, FALSE)
           [] dt = "String" -> Ok([t |-> "String", x |-> Utf8Lossy(raw)])
           [] dt = "U8Array" -> Ok([t |-> "U8Array", x |-> raw])
           [] dt = "Raw" -> Ok([t |-> "Raw", x |-> raw])
           [] OTHER -> Err(<<"UnsuportedDataType", dt>>)

\* (the bytes in big-endian order)
to_be_bytes(x, w) == LET le == ToLE(x, w) IN [i \in 1..w |-> le[w + 1 - i]]

\* iN/uN/fN::to_ne_bytes
to_ne_bytes(x, w) == ToLE(x, w)

value_to_bytes(v) ==
    CASE v.t = "Bool" -> Ok(IF v.x THEN <<1>> ELSE <<0>>)
      [] v.t = "Byte" -> Ok(<<v.x>>)
      [] v.t \in {"I8", "I16", "I32", "I64", "U8", "U16", "U32", "U64", "F32", "F64"} ->
            Ok(to_ne_bytes(v.x, IntWidth(v.t)))
      [] v.t = "Raw" -> Ok(v.x)
      [] OTHER -> Err(<<"UnsuportedValue", v>>)

----------------------------------------------------------------------------
(* src/lib.rs: free functions                                              *)

\* (the byte count rounded down)
byte_cnt_floor(bits) == bits \div 8

\* (one byte more than the whole bytes, also for a multiple of 8)
byte_cnt_up(bits) == (bits \div 8) + 1

byte_cnt(bits) == IF bits % 8 = 0 THEN bits \div 8 ELSE (bits \div 8) + 1

\* (read wins: read and write together give ReadOnly)
access_read_wins(read, write) ==
    IF read THEN "ReadOnly" ELSE IF write THEN "WriteOnly" ELSE "Unknown"

access(read, write) ==
    CASE read /\ ~write -> "ReadOnly"
      [] ~read /\ write -> "WriteOnly"
      [] read /\ write -> "ReadWrite"
      [] OTHER -> "Unknown"

\* x is a u16; RD_P, RD_S, RD_O are bits 0, 1, 2 and WR_P, WR_S, WR_O bits
\* 3, 4, 5
access_from_u16(x) ==
    LET p == access(BitAnd(x, 1) > 0, BitAnd(x, 8) > 0)
        s == access(BitAnd(x, 2) > 0, BitAnd(x, 16) > 0)
        o == access(BitAnd(x, 4) > 0, BitAnd(x, 32) > 0)
    IN  [pre_op |-> p, safe_op |-> s, op |-> o]

\* Option<T>: <<>> is None, <<x>> is Some(x).  Option<DataType> is the
\* data type's name, or "None".
NoDataType == "None"

\* dict.and_then(|dict| dict.entries.get(&sdo)).and_then(|sdo| sdo.data_type)
EntryDataType(dict, sdo) ==
    IF dict = <<>> THEN NoDataType
    ELSE IF sdo \in DOMAIN dict[1].entries
         THEN dict[1].entries[sdo].data_type
         ELSE NoDataType

\* the inner loop of process_data over one PDO's entries; st is the loop
\* state [panic, values, bit_offset]
RECURSIVE process_entries(_, _, _, _)
process_entries(data, entries, dict, st) ==
    IF entries = <<>> \/ st.panic THEN st
    ELSE LET entry == Head(entries)
             len == byte_cnt(entry.bit_len)
             byte == st.bit_offset \div 8
         IN  IF byte + len > Len(data)
             THEN [st EXCEPT !.panic = TRUE]      \* &data[byte..byte + len]
             ELSE
             LET raw == SubSeq(data, byte + 1, byte + len)
                 found == EntryDataType(dict, entry.sdo)
                 data_type == IF found = NoDataType THEN "Raw" ELSE found
                 r == value_from_slice(data_type, raw, st.bit_offset % 8)
                 next == [panic |-> r.k = "Panic",
                          values |-> IF r.k = "Ok"
                                     THEN Append(st.values, <<entry.sdo, r.v>>)
                                     ELSE st.values,
                          bit_offset |-> st.bit_offset + entry.bit_len]
             IN  process_entries(data, Tail(entries), dict, next)

RECURSIVE process_pdos(_, _, _, _)
process_pdos(data, pdos, dict, st) ==
    IF pdos = <<>> \/ st.panic THEN st
    ELSE process_pdos(data, Tail(pdos), dict,
                      process_entries(data, Head(pdos).entries, dict, st))

\* [panic |-> the call panicked, values |-> the Vec it returns otherwise]
process_data(data, pdos, dict) ==
    LET st == process_pdos(data, pdos, dict,
                           [panic |-> FALSE, values |-> <<>>, bit_offset |-> 0])
    IN  [panic |-> st.panic, values |-> IF st.panic THEN <<>> ELSE st.values]

\* the closure of pdo_offsets over one PDO's entries; acc is
\* [offsets, bit_offset], bit_offset being the captured running counter
RECURSIVE entry_offsets(_, _)
entry_offsets(entries, acc) ==
    IF entries = <<>> THEN acc
    ELSE LET entry == Head(entries)
             offset == [bit |-> acc.bit_offset % 8, byte |-> acc.bit_offset \div 8]
         IN  entry_offsets(Tail(entries),
                 [offsets |-> Append(acc.offsets, <<entry.sdo, offset>>),
                  bit_offset |-> acc.bit_offset + entry.bit_len])

RECURSIVE flat_map_offsets(_, _)
flat_map_offsets(pdos, acc) ==
    IF pdos = <<>> THEN acc
    ELSE flat_map_offsets(Tail(pdos), entry_offsets(Head(pdos).entries, acc))

\* (the running bit offset restarted at every PDO)
RECURSIVE pdo_offsets_per_pdo(_)
pdo_offsets_per_pdo(pdos) ==
    IF pdos = <<>> THEN <<>>
    ELSE entry_offsets(Head(pdos).entries,
                       [offsets |-> <<>>, bit_offset |-> 0]).offsets
         \o pdo_offsets_per_pdo(Tail(pdos))

pdo_offsets(pdos) ==
    flat_map_offsets(pdos, [offsets |-> <<>>, bit_offset |-> 0]).offsets

---------------------------------------------------------------------------------------------------------------------------------------------------
(* The bus: what the engine and the slaves answer.  A device is described  *)
(* by                                                                      *)
(*   [types    |-> the ec_slave.SMtype ids of its sync managers 2, 3, ..., *)
(*    lists    |-> for each of them, the PDO indexes its assignment object *)
(*                 0x1C10+sm holds,                                        *)
(*    sdo_fail |-> the SDOs whose mailbox read fails,                      *)
(*    sm_objs  |-> the count its SDO 0x1C00:0 reports,                     *)
(*    od_fail  |-> the request of the object dictionary walk that fails:   *)
(*                 kind "list", "desc" or "oe" and the item, or "none"]    *)
(* and answers with the SDO values of DeviceSdo, the sync manager types of *)
(* DeviceSmType and the object list OdObjects.                             *)

MAX_SM_CNT == 8
SDO_IDX_PDO_ASSIGN == 7184      \* 0x1C10
SDO_IDX_SM_COMM_TYPE == 7168    \* 0x1C00

\* the largest number of process-data sync managers of a modelled device
MaxSm == 2

\* [index:16][subindex:8][bit-length:8]
Packed(idx, sub, bit_len) == idx * 65536 + sub * 256 + bit_len

\* The PDO mapping objects of the modelled devices.
\*   0x1600: 0x7001:03 (F32)              0x1601: 0x7010:02, 0x7010:06 (Bool)
\*   0x1602: 0x1602:01 (U8), 0x1602:02, 0x1602:03 (Bool), 0x1602:04 (U16)
\* 0x1600 and 0x1601 are the PDOs of the tests of src/lib.rs.  0x1602 maps
\* sub-entries of the object that has its own index.
PdoObject ==
    (5632 :> << Packed(28673, 3, 32) >>) @@
    (5633 :> << Packed(28688, 2, 1), Packed(28688, 6, 1) >>) @@
    (5634 :> << Packed(5634, 1, 8), Packed(5634, 2, 1), Packed(5634, 3, 1),
                Packed(5634, 4, 16) >>)

\* One entry of an OeList: the CoE data type code and the bit length
Oe(dt, bit_len) == [dt |-> dt, bit_len |-> bit_len]

\* a subindex the device does not implement
Gap == Oe(0, 0)

\* The objects of the modelled devices as the engine lists them (OdList and
\* the OeList of every item): index, max_sub and the entries of the
\* subindexes 0..max_sub.  Codes: 0x0001 Bool, 0x0005 U8, 0x0006 U16,
\* 0x0007 U32, 0x0008 F32.  0x1018 is the identity object, mapped nowhere.
\* Object 0x7002 is mapped nowhere; its 0x7002:02 has a code
\* that names no data type (0x0FFF) and its 0x7002:03 a bit length of 0.
OdObjects ==
    << [index |-> 5634, max_sub |-> 4,
        oes |-> << Oe(5, 8), Oe(5, 8), Oe(1, 1), Oe(1, 1), Oe(6, 16) >>],
       [index |-> 28673, max_sub |-> 3,
        oes |-> << Oe(5, 8), Gap, Gap, Oe(8, 32) >>],
       [index |-> 28674, max_sub |-> 3,
        oes |-> << Oe(5, 8), Oe(5, 8), Oe(4095, 8), Oe(6, 0) >>],
       [index |-> 28688, max_sub |-> 6,
        oes |-> << Oe(5, 8), Gap, Oe(1, 1), Gap, Gap, Gap, Oe(1, 1) >>],
       [index |-> 4120, max_sub |-> 2,
        oes |-> << Oe(5, 8), Oe(7, 32), Oe(7, 32) >>] >>

\* the PDO lists a sync manager's assignment object 0x1C10+sm may hold
PdoLists == { <<5632, 5633>>, <<5634>> }

\* ids of ec_slave.SMtype: 3 = Outputs, 4 = Inputs
PdSmTypeIds == {3, 4}

\* the SDOs a mailbox read of the device can fetch, <<>> for one it does not
\* have: 0x1C00:0, the assignment objects 0x1C10+sm of its process-data sync
\* managers and the PDO mapping objects
DeviceSdo(dev, e) ==
    LET k == e[1] - SDO_IDX_PDO_ASSIGN - 1
    IN  IF e = <<SDO_IDX_SM_COMM_TYPE, 0>> THEN << dev.sm_objs >>
        ELSE IF k \in 1..Len(dev.types) THEN
            IF e[2] = 0 THEN << Len(dev.lists[k]) >>
            ELSE IF e[2] \in 1..Len(dev.lists[k]) THEN << dev.lists[k][e[2]] >>
            ELSE <<>>
        ELSE IF e[1] \in DOMAIN PdoObject THEN
            IF e[2] = 0 THEN << Len(PdoObject[e[1]]) >>
            ELSE IF e[2] \in 1..Len(PdoObject[e[1]]) THEN << PdoObject[e[1]][e[2]] >>
            ELSE <<>>
        ELSE <<>>

\* ec_slave.SMtype: sync managers 0 and 1 are the mailboxes
DeviceSmType(dev) ==
    [i \in 1..8 |-> IF i = 1 THEN 1
                    ELSE IF i = 2 THEN 2
                    ELSE IF i - 2 <= Len(dev.types) THEN dev.types[i - 2]
                    ELSE 0]

NoFault == [kind |-> "none", item |-> 0]

\* a healthy device: 0x1C00:0 counts its sync managers
Device(types, lists) ==
    [types |-> types, lists |-> lists, sdo_fail |-> {},
     sm_objs |-> 2 + Len(types), od_fail |-> NoFault]

RECURSIVE SeqsUpTo(_, _)
SeqsUpTo(S, n) ==
    IF n = 0 THEN { <<>> }
    ELSE LET shorter == SeqsUpTo(S, n - 1)
         IN  shorter \cup { Append(q, x) : q \in shorter, x \in S }

\* a PDO is assigned to one sync manager at most
Devices ==
    UNION { { Device(types, lists) :
                lists \in { l \in [1..Len(types) -> PdoLists] :
                              \A i, j \in DOMAIN l : i # j => l[i] # l[j] } }
            : types \in SeqsUpTo(PdSmTypeIds, MaxSm) }

\* a device with the two mailbox sync managers only
MailboxDevice == Device(<<>>, <<>>)

\* Devices whose sync managers from 2 on are not all process-data ones:
\*   SM2 reported as MbxRd (the slave bug sm_types skips), SM3 Inputs,
\*   SM4 Outputs;  SM2 unused, SM3 Outputs;  SM2 MbxWr, SM3 Inputs;
\*   SM2 Inputs, SM3 MbxRd
OddDevices ==
    { Device(<<2, 4, 3>>, << <<>>, <<5634>>, <<5632, 5633>> >>),
      Device(<<0, 3>>, << <<>>, <<5634>> >>),
      Device(<<1, 4>>, << <<>>, <<5632, 5633>> >>),
      Device(<<4, 2>>, << <<5634>>, <<>> >>) }

\* a device whose 0x1C00:0 reports 10 objects, two more than the sync
\* managers a slave has; its SM2 and SM3 carry the process data
ManySmDevice ==
    [Device(<<3, 4, 0, 0, 0, 0>>,
            << <<5632, 5633>>, <<5634>>, <<>>, <<>>, <<>>, <<>> >>)
        EXCEPT !.sm_objs = 10]

\* Devices that fail one mailbox request: the read of 0x1C00:0, the read of
\* the third entry of PDO 0x1602, the object list, the description of the
\* third object, the entry list of the second
FaultyDevices ==
    LET d == Device(<<3>>, << <<5634>> >>)
    IN  { [d EXCEPT !.sdo_fail = { <<SDO_IDX_SM_COMM_TYPE, 0>> }],
          [d EXCEPT !.sdo_fail = { <<5634, 3>> }],
          [d EXCEPT !.od_fail = [kind |-> "list", item |-> 0]],
          [d EXCEPT !.od_fail = [kind |-> "desc", item |-> 2]],
          [d EXCEPT !.od_fail = [kind |-> "oe", item |-> 1]] }

\* one slave, a slave with one process-data sync manager at most behind a
\* mailbox-only slave, or a faulty slave behind a healthy one
Buses ==
    { <<d>> : d \in Devices \cup OddDevices \cup { ManySmDevice } }
    \cup { <<MailboxDevice, Device(types, lists)>> :
             types \in { <<3>>, <<4>> }, lists \in [1..1 -> PdoLists] }
    \cup { << Device(<<3>>, << <<5632, 5633>> >>), f >> : f \in FaultyDevices }

----------------------------------------------------------------------------
(* The engine (SOEM), as far as the Master reads it back                   *)

\* the bits a device's sync managers of one type carry: ec_slave.Obits for
\* type 3, ec_slave.Ibits for type 4
RECURSIVE SumSeq(_)
SumSeq(q) == IF q = <<>> THEN 0 ELSE Head(q) + SumSeq(Tail(q))

PdoBits(pdo) ==
    IF pdo \in DOMAIN PdoObject
    THEN SumSeq([e \in 1..Len(PdoObject[pdo]) |-> PdoObject[pdo][e] % 256])
    ELSE 0

EngineBits(dev, type_id) ==
    SumSeq([k \in 1..Len(dev.types) |->
              IF dev.types[k] = type_id
              THEN SumSeq([p \in 1..Len(dev.lists[k]) |-> PdoBits(dev.lists[k][p])])
              ELSE 0])

\* the length of Slave::outputs() / Slave::inputs(): Obytes is 0 below 8 bits
SliceSize(bits) ==
    LET bytes == IF bits < 8 THEN 0 ELSE (bits + 7) \div 8
    IN  IF bytes = 0 /\ bits > 0 THEN 1 ELSE bytes

Zeros(n) == [i \in 1..n |-> 0]

----------------------------------------------------------------------------
(* src/lib.rs: discovery and PDO resolution                                *)

\* One request to the engine: the function of Ctx called, the slave position
\* and, for sdo_read, the EntryIdx; for read_od_description and read_oe idx is
\* <<item, 0>>
Req(fn, slave, idx) == [fn |-> fn, slave |-> slave, idx |-> idx]

read_sdo(slave, idx) ==
    LET dev == bus[slave + 1]
        answer == DeviceSdo(dev, idx)
    IN  IF idx \in dev.sdo_fail \/ answer = <<>>
        THEN Err(<<"ReadSdo", slave, idx>>)
        ELSE Ok(answer[1])

sm_comm_type_sdo(slave, sub_idx) == read_sdo(slave, <<SDO_IDX_SM_COMM_TYPE, sub_idx>>)

\* ec::SmType::try_from(u8)
SmTypeFromU8(id) ==
    CASE id = 0 -> Ok("Unused")
      [] id = 1 -> Ok("MbxWr")
      [] id = 2 -> Ok("MbxRd")
      [] id = 3 -> Ok("Outputs")
      [] id = 4 -> Ok("Inputs")
      [] OTHER -> Err(<<"InvalidSmType">>)

\* the loop of sm_types from sync manager sm on; n is ctx.slave_count()
RECURSIVE sm_types_loop(_, _, _, _, _)
sm_types_loop(n, slave, sm, sm_cnt, acc) ==
    IF sm > sm_cnt THEN Ok(acc)
    ELSE IF ~(slave < n /\ sm < 8) THEN Err(<<"InvalidSmType">>)
    ELSE LET sm_type == SmTypeFromU8(DeviceSmType(bus[slave + 1])[sm + 1])
         IN  IF sm_type.k # "Ok" THEN sm_type
             ELSE IF sm = 2 /\ sm_type.v = "MbxRd"
                  THEN sm_types_loop(n, slave, sm + 1, sm_cnt, acc)
                  ELSE sm_types_loop(n, slave, sm + 1, sm_cnt,
                                     Append(acc, <<sm, sm_type.v>>))

sm_types(n, slave, sm_cnt) == sm_types_loop(n, slave, 2, sm_cnt, <<>>)

\* (the subindex taken from the low byte and the bit length from the next)
PdoEntryInfo_swapped(data) ==
    [sdo |-> <<data \div 65536, data % 256>>, bit_len |-> (data \div 256) % 256]

\* the PdoEntryInfo pdo_entry_info makes of the u32 it has read
PdoEntryInfo(data) ==
    LET bit_len == data % 256                   \* data & 0x00FF
        obj_idx == data \div 65536              \* data >> 16
        obj_subidx == (data \div 256) % 256     \* (data >> 8) & 0xFF
    IN  [sdo |-> <<obj_idx, obj_subidx>>, bit_len |-> bit_len]

pdo_entry_info(slave, pdo_data_sdo_idx) ==
    The({ IF r.k # "Ok" THEN r ELSE Ok(PdoEntryInfo(r.v))
          : r \in { read_sdo(slave, pdo_data_sdo_idx) } })

RECURSIVE pdo_entries_loop(_, _, _, _, _)
pdo_entries_loop(slave, pdo_idx, entry_sub, pdo_entry_cnt, pdo_entries) ==
    IF entry_sub > pdo_entry_cnt THEN Ok(pdo_entries)
    ELSE The({ IF pdo_info.k # "Ok" THEN pdo_info
               ELSE pdo_entries_loop(slave, pdo_idx, entry_sub + 1, pdo_entry_cnt,
                                     Append(pdo_entries, pdo_info.v))
               : pdo_info \in { pdo_entry_info(slave, <<pdo_idx, entry_sub>>) } })

\* one PDO of the assignment object idx: its index, its entry count and its
\* entries
pdo_info_of(slave, idx, pdo_sub) ==
    The({ IF pdo_idx.k # "Ok" THEN pdo_idx
          ELSE The({ IF pdo_entry_cnt.k # "Ok" THEN pdo_entry_cnt
                     ELSE The({ IF pdo_entries.k # "Ok" THEN pdo_entries
                                ELSE Ok([idx |-> pdo_idx.v,
                                         entries |-> pdo_entries.v])
                                : pdo_entries \in
                                    { pdo_entries_loop(slave, pdo_idx.v, 1,
                                                       pdo_entry_cnt.v, <<>>) } })
                     : pdo_entry_cnt \in { read_sdo(slave, <<pdo_idx.v, 0>>) } })
          : pdo_idx \in { read_sdo(slave, <<idx, pdo_sub>>) } })

RECURSIVE pdos_loop(_, _, _, _, _)
pdos_loop(slave, idx, pdo_sub, pdo_cnt, pdos) ==
    IF pdo_sub > pdo_cnt THEN Ok(pdos)
    ELSE The({ IF pdo.k # "Ok" THEN pdo
               ELSE pdos_loop(slave, idx, pdo_sub + 1, pdo_cnt, Append(pdos, pdo.v))
               : pdo \in { pdo_info_of(slave, idx, pdo_sub) } })

si_pdo_assign(slave, sm, sm_type) ==
    The({ IF pdo_cnt.k # "Ok" THEN pdo_cnt
          ELSE The({ IF pdos.k # "Ok" THEN pdos
                     ELSE Ok([sm |-> sm, sm_type |-> sm_type, pdos |-> pdos.v])
                     : pdos \in { pdos_loop(slave, SDO_IDX_PDO_ASSIGN + sm, 1,
                                            pdo_cnt.v, <<>>) } })
          : pdo_cnt \in { read_sdo(slave, <<SDO_IDX_PDO_ASSIGN + sm, 0>>) } })

\* the two nested loops of coe_pdo_info over the sync managers of one slave:
\* those of type Outputs first, then those of type Inputs
RECURSIVE assign_loop(_, _, _)
assign_loop(slave, todo, pdo_mapping_) ==
    IF todo = <<>> THEN Ok(pdo_mapping_)
    ELSE The({ IF pdo_assign.k # "Ok" THEN pdo_assign
               ELSE assign_loop(slave, Tail(todo), Append(pdo_mapping_, pdo_assign.v))
               : pdo_assign \in { si_pdo_assign(slave, Head(todo)[1], Head(todo)[2]) } })

\* (no filter: every sync manager, whatever its type)
OfType_any(sm_types_, t) == sm_types_

\* sm_types.iter().filter(|(_, sm_type)| sm_type == t)
OfType(sm_types_, t) == SelectSeq(sm_types_, LAMBDA p : p[2] = t)

\* one pass of the loop of coe_pdo_info: <<>> for a slave the loop leaves
\* with `continue`, << its assignments >> otherwise
slave_pdo_mapping(n, slave) ==
    The({ IF obj_cnt.k # "Ok" THEN obj_cnt
          ELSE IF obj_cnt.v <= 2 THEN Ok(<<>>)
          ELSE LET sm_cnt == IF obj_cnt.v - 1 > MAX_SM_CNT THEN MAX_SM_CNT
                             ELSE obj_cnt.v - 1
               IN  The({ IF types.k # "Ok" THEN types
                         ELSE The({ IF m.k # "Ok" THEN m ELSE Ok(<< m.v >>)
                                    : m \in { assign_loop(slave,
                                                OfType(types.v, "Outputs")
                                                \o OfType(types.v, "Inputs"),
                                                <<>>) } })
                         : types \in { sm_types(n, slave, sm_cnt) } })
          : obj_cnt \in { sm_comm_type_sdo(slave, 0) } })

\* the loop of coe_pdo_info from position slave on; n is ctx.slave_count().
\* Nothing is pushed for a slave left with `continue`.
RECURSIVE coe_pdo_info_loop(_, _, _)
coe_pdo_info_loop(n, slave, mappings) ==
    IF slave >= n THEN Ok(mappings)
    ELSE The({ IF m.k # "Ok" THEN m
               ELSE coe_pdo_info_loop(n, slave + 1, mappings \o m.v)
               : m \in { slave_pdo_mapping(n, slave) } })

coe_pdo_info(n) == coe_pdo_info_loop(n, 0, <<>>)

\* the requests of the loop `for entry_sub in 1..=pdo_entry_cnt` of
\* si_pdo_assign, from entry_sub on
RECURSIVE pdo_entries_requests(_, _, _, _)
pdo_entries_requests(slave, pdo_idx, entry_sub, pdo_entry_cnt) ==
    IF entry_sub > pdo_entry_cnt THEN <<>>
    ELSE << Req("sdo_read", slave, <<pdo_idx, entry_sub>>) >>
         \o IF pdo_entry_info(slave, <<pdo_idx, entry_sub>>).k # "Ok" THEN <<>>
            ELSE pdo_entries_requests(slave, pdo_idx, entry_sub + 1, pdo_entry_cnt)

\* (the entry count of the PDO not read: its entries asked for at once)
pdo_requests_no_count(slave, idx, pdo_sub) ==
    << Req("sdo_read", slave, <<idx, pdo_sub>>) >>
    \o IF read_sdo(slave, <<idx, pdo_sub>>).k # "Ok" THEN <<>>
       ELSE IF read_sdo(slave, <<read_sdo(slave, <<idx, pdo_sub>>).v, 0>>).k # "Ok"
            THEN <<>>
            ELSE pdo_entries_requests(
                     slave, read_sdo(slave, <<idx, pdo_sub>>).v, 1,
                     read_sdo(slave, <<read_sdo(slave, <<idx, pdo_sub>>).v, 0>>).v)

\* the requests of one pass of the loop `for pdo_sub in 1..=pdo_cnt` of
\* si_pdo_assign: the PDO index, its entry count, its entries
pdo_requests(slave, idx, pdo_sub) ==
    << Req("sdo_read", slave, <<idx, pdo_sub>>) >>
    \o IF read_sdo(slave, <<idx, pdo_sub>>).k # "Ok" THEN <<>>
       ELSE << Req("sdo_read", slave, <<read_sdo(slave, <<idx, pdo_sub>>).v, 0>>) >>
            \o IF read_sdo(slave, <<read_sdo(slave, <<idx, pdo_sub>>).v, 0>>).k # "Ok"
               THEN <<>>
               ELSE pdo_entries_requests(
                        slave, read_sdo(slave, <<idx, pdo_sub>>).v, 1,
                        read_sdo(slave, <<read_sdo(slave, <<idx, pdo_sub>>).v, 0>>).v)

RECURSIVE pdos_requests(_, _, _, _)
pdos_requests(slave, idx, pdo_sub, pdo_cnt) ==
    IF pdo_sub > pdo_cnt THEN <<>>
    ELSE pdo_requests(slave, idx, pdo_sub)
         \o IF pdo_info_of(slave, idx, pdo_sub).k # "Ok" THEN <<>>
            ELSE pdos_requests(slave, idx, pdo_sub + 1, pdo_cnt)

\* the requests si_pdo_assign makes, in the order it makes them
si_pdo_assign_requests(slave, sm) ==
    << Req("sdo_read", slave, <<SDO_IDX_PDO_ASSIGN + sm, 0>>) >>
    \o IF read_sdo(slave, <<SDO_IDX_PDO_ASSIGN + sm, 0>>).k # "Ok" THEN <<>>
       ELSE pdos_requests(slave, SDO_IDX_PDO_ASSIGN + sm, 1,
                          read_sdo(slave, <<SDO_IDX_PDO_ASSIGN + sm, 0>>).v)

\* the requests of the two nested loops of coe_pdo_info over the sync
\* managers todo of one slave
RECURSIVE assign_requests(_, _)
assign_requests(slave, todo) ==
    IF todo = <<>> THEN <<>>
    ELSE si_pdo_assign_requests(slave, Head(todo)[1])
         \o IF si_pdo_assign(slave, Head(todo)[1], Head(todo)[2]).k # "Ok" THEN <<>>
            ELSE assign_requests(slave, Tail(todo))

\* the requests of one pass of the loop of coe_pdo_info: sm_types reads the
\* sync manager types the engine holds and makes no request
slave_requests(n, slave) ==
    << Req("sdo_read", slave, <<SDO_IDX_SM_COMM_TYPE, 0>>) >>
    \o The({ IF obj_cnt.k # "Ok" THEN <<>>
             ELSE IF obj_cnt.v <= 2 THEN <<>>
             ELSE The({ IF types.k # "Ok" THEN <<>>
                        ELSE assign_requests(slave,
                                 OfType(types.v, "Outputs") \o OfType(types.v, "Inputs"))
                        : types \in { sm_types(n, slave,
                                        IF obj_cnt.v - 1 > MAX_SM_CNT THEN MAX_SM_CNT
                                        ELSE obj_cnt.v - 1) } })
             : obj_cnt \in { sm_comm_type_sdo(slave, 0) } })

\* the requests coe_pdo_info makes from position slave on
RECURSIVE coe_pdo_info_requests(_, _)
coe_pdo_info_requests(n, slave) ==
    IF slave >= n THEN <<>>
    ELSE slave_requests(n, slave)
         \o IF slave_pdo_mapping(n, slave).k # "Ok" THEN <<>>
            ELSE coe_pdo_info_requests(n, slave + 1)

\* ec::DataType::from_u16, on the codes of the data types the codec names
DataTypeFromU16(dt) ==
    CASE dt = 1 -> "Bool"
      [] dt = 2 -> "I8"
      [] dt = 3 -> "I16"
      [] dt = 4 -> "I32"
      [] dt = 5 -> "U8"
      [] dt = 6 -> "U16"
      [] dt = 7 -> "U32"
      [] dt = 8 -> "F32"
      [] dt = 9 -> "String"
      [] dt = 10 -> "U8Array"
      [] dt = 11 -> "U16Array"
      [] dt = 17 -> "F64"
      [] dt = 21 -> "I64"
      [] dt = 27 -> "U64"
      [] dt = 30 -> "Byte"
      [] dt = 65535 -> "Raw"
      [] OTHER -> NoDataType

\* (the entries without a data type or without bits left out)
add_entries_decodable(entries, obj) ==
    LET new == { e \in { <<obj.index, j>> : j \in 0..obj.max_sub } :
                   /\ DataTypeFromU16(obj.oes[e[2] + 1].dt) # NoDataType
                   /\ obj.oes[e[2] + 1].bit_len # 0 }
    IN  [e \in DOMAIN entries \cup new |->
            IF e \in new
            THEN [data_type |-> DataTypeFromU16(obj.oes[e[2] + 1].dt),
                  bit_len |-> obj.oes[e[2] + 1].bit_len]
            ELSE entries[e]]

\* the loop `for j in 0..=max_sub_idx` of read_od_list on the listed object
\* obj: dict.add_entry keeps one EntryInfo per EntryIdx, the last added
add_entries(entries, obj) ==
    LET new == { <<obj.index, j>> : j \in 0..obj.max_sub }
    IN  [e \in DOMAIN entries \cup new |->
            IF e \in new
            THEN [data_type |-> DataTypeFromU16(obj.oes[e[2] + 1].dt),
                  bit_len |-> obj.oes[e[2] + 1].bit_len]
            ELSE entries[e]]

\* dict.add_obj of the ObjectInfo read_od_desc builds for item `item`
add_obj(objects, item, obj) ==
    [i \in DOMAIN objects \cup { obj.index } |->
        IF i = obj.index
        THEN [pos |-> item, idx |-> obj.index, max_sub_idx |-> obj.max_sub]
        ELSE objects[i]]

\* the loop of read_od_list from item i on (read_od_desc, then read_oe_list)
RECURSIVE read_od_loop(_, _, _)
read_od_loop(fault, i, dict) ==
    IF i >= Len(OdObjects) THEN Ok(dict)
    ELSE IF fault = [kind |-> "desc", item |-> i] THEN Err(<<"ReadOdDesc", i>>)
    ELSE IF fault = [kind |-> "oe", item |-> i] THEN Err(<<"ReadOeList", i>>)
    ELSE read_od_loop(fault, i + 1,
            [entries |-> add_entries(dict.entries, OdObjects[i + 1]),
             objects |-> add_obj(dict.objects, i, OdObjects[i + 1])])

\* ec::ObjectDict::default()
EmptyDict == [entries |-> <<>>, objects |-> <<>>]

read_od_list(slave) ==
    IF bus[slave + 1].od_fail.kind = "list" THEN Err(<<"ReadOdList", slave>>)
    ELSE read_od_loop(bus[slave + 1].od_fail, 0, EmptyDict)

\* the entries of the dictionary read_od_list builds of a healthy device
DeviceOd == read_od_loop(NoFault, 0, EmptyDict).v.entries

RECURSIVE scan_loop(_, _, _)
scan_loop(n, i, dicts) ==
    IF i >= n THEN Ok(dicts)
    ELSE The({ IF d.k # "Ok" THEN d ELSE scan_loop(n, i + 1, Append(dicts, d.v))
               : d \in { read_od_list(i) } })

scan_slave_objects(n) == scan_loop(n, 0, <<>>)

\* (read_oe before read_od_description, and on after a request that failed)
RECURSIVE od_requests_loop_on(_, _, _)
od_requests_loop_on(slave, fault, i) ==
    IF i >= Len(OdObjects) THEN <<>>
    ELSE << Req("read_oe", slave, <<i, 0>>),
            Req("read_od_description", slave, <<i, 0>>) >>
         \o od_requests_loop_on(slave, fault, i + 1)

\* the requests the loop of read_od_list makes from item i on: the `?` after
\* read_od_desc and after read_oe_list leaves the loop
RECURSIVE od_requests_loop(_, _, _)
od_requests_loop(slave, fault, i) ==
    IF i >= Len(OdObjects) THEN <<>>
    ELSE << Req("read_od_description", slave, <<i, 0>>) >>
         \o IF fault = [kind |-> "desc", item |-> i] THEN <<>>
            ELSE << Req("read_oe", slave, <<i, 0>>) >>
                 \o IF fault = [kind |-> "oe", item |-> i] THEN <<>>
                    ELSE od_requests_loop(slave, fault, i + 1)

\* the requests read_od_list makes, in the order it makes them
read_od_list_requests(slave) ==
    << Req("read_od_list", slave, <<0, 0>>) >>
    \o IF bus[slave + 1].od_fail.kind = "list" THEN <<>>
       ELSE od_requests_loop(slave, bus[slave + 1].od_fail, 0)

\* the requests scan_slave_objects makes from position i on: collect() stops
\* at the first Err
RECURSIVE scan_requests(_, _)
scan_requests(n, i) ==
    IF i >= n THEN <<>>
    ELSE read_od_list_requests(i)
         \o IF read_od_list(i).k # "Ok" THEN <<>> ELSE scan_requests(n, i + 1)

----------------------------------------------------------------------------
(* src/lib.rs: the process-data accessor                                   *)

\* ec::PdoMapping::get(slave)
PdoMappingGet(slave) ==
    IF slave + 1 \in DOMAIN pdo_mapping THEN << pdo_mapping[slave + 1] >> ELSE <<>>

\* (the position's first assignment, whatever its type)
PdoMappingOutputs_any(slave) ==
    LET a == PdoMappingGet(slave)
    IN  IF a = <<>> \/ a[1] = <<>> THEN <<>> ELSE << Head(a[1]) >>

\* ec::PdoMapping::outputs(slave): the position's Outputs assignment, the
\* first one when it has several
PdoMappingOutputs(slave) ==
    LET a == PdoMappingGet(slave)
    IN  IF a = <<>> THEN <<>>
        ELSE LET outs == SelectSeq(a[1], LAMBDA x : x.sm_type = "Outputs")
             IN  IF outs = <<>> THEN <<>> ELSE << Head(outs) >>

\* self.sdos.get(i)
SdosGet(i) == IF i + 1 \in DOMAIN sdos THEN << sdos[i + 1] >> ELSE <<>>

\* iter().find(pred) on a sequence: <<>> or <<the first match>>
Find(q, pred(_)) ==
    LET hits == SelectSeq(q, pred) IN IF hits = <<>> THEN <<>> ELSE << Head(hits) >>

\* the body of the filter_map closure of pdo_values for the slave at
\* position i whose assignments are known; st is [panic, values]
RECURSIVE slave_values(_, _, _)
slave_values(i, assignments, st) ==
    IF assignments = <<>> \/ st.panic THEN st
    ELSE LET a == Head(assignments)
             data == IF a.sm_type = "Outputs" THEN outputs[i + 1] ELSE inputs[i + 1]
         IN  IF a.sm_type \notin {"Outputs", "Inputs"}
             THEN slave_values(i, Tail(assignments), st)
             ELSE LET r == process_data(data, a.pdos, SdosGet(i))
                  IN  slave_values(i, Tail(assignments),
                          [panic |-> r.panic, values |-> st.values \o r.values])

\* pdo_values(), the iterator run to its end: one Vec per slave that has
\* PDO meta data, in position order
RECURSIVE pdo_values_from(_, _)
pdo_values_from(i, acc) ==
    IF i >= slave_count THEN Ok(acc)
    ELSE LET assignments == PdoMappingGet(i)
         IN  IF assignments = <<>> THEN pdo_values_from(i + 1, acc)
             ELSE LET r == slave_values(i, assignments[1],
                                        [panic |-> FALSE, values |-> <<>>])
                  IN  IF r.panic THEN Panic
                      ELSE pdo_values_from(i + 1, Append(acc, r.values))

pdo_values == pdo_values_from(0, <<>>)

\* (the byte assigned, not or-ed and and-ed)
write_bit_assign(old, bit, b0) == IF b0 = 1 THEN Pow2(bit) ELSE 0

\* the Bool branch of set_pdo_value on the byte old: set or clear bit `bit`
write_bit(old, bit, b0) ==
    LET mask == Pow2(bit)
    IN  IF b0 = 1 THEN BitOr(old, mask) ELSE BitAnd(old, BitNot(mask))

\* (only the first byte copied)
copy_bytes_first(out, byte, bytes) ==
    IF bytes = <<>> THEN [panic |-> FALSE, out |-> out]
    ELSE IF byte + 1 > Len(out) THEN [panic |-> TRUE, out |-> out]
    ELSE [panic |-> FALSE, out |-> [out EXCEPT ![byte + 1] = Head(bytes)]]

\* for (i, b) in bytes.into_iter().enumerate() { s.outputs_mut()[byte + i] = b }
\* on the buffer out: [panic, out], the bytes written before an index out of
\* range stay written
RECURSIVE copy_bytes(_, _, _)
copy_bytes(out, byte, bytes) ==
    IF bytes = <<>> THEN [panic |-> FALSE, out |-> out]
    ELSE IF byte + 1 > Len(out) THEN [panic |-> TRUE, out |-> out]
    ELSE copy_bytes([out EXCEPT ![byte + 1] = Head(bytes)], byte + 1, Tail(bytes))

\* set_pdo_value: [res |-> what the call returns, outputs |-> the slaves'
\* outputs after it]
set_pdo_value(slave, idx, v) ==
    LET unchanged(r) == [res |-> r, outputs |-> outputs]
        assignment == PdoMappingOutputs(slave)
    IN  IF assignment = <<>> THEN unchanged(Err(<<"NoOutputPdos", slave>>))
        ELSE
        LET pdos == assignment[1].pdos
            offsets == pdo_offsets(pdos)
            hit == Find(offsets, LAMBDA x : x[1] = idx)
        IN  IF hit = <<>> THEN unchanged(Err(<<"PdoEntryNotFound", idx>>))
            ELSE
            LET offset == hit[1][2]
                info == Find(pdos, LAMBDA i : i.idx = idx[1])
                e == IF info = <<>> THEN <<>>
                     ELSE Find(info[1].entries, LAMBDA x : x.sdo = idx)
            IN  IF e = <<>> THEN unchanged(Err(<<"PdoEntryNotFound", idx>>))
                ELSE
                LET data_type == EntryDataType(SdosGet(slave), e[1].sdo)
                IN  IF data_type = NoDataType
                    THEN unchanged(Err(<<"UnexpectedDataType">>))
                    ELSE IF ~(slave < slave_count)
                    THEN unchanged(Err(<<"SlaveNotFound", slave>>))
                    ELSE
                    LET bytes == value_to_bytes(v)
                        out == outputs[slave + 1]
                    IN  IF bytes.k # "Ok" THEN unchanged(bytes)
                        ELSE IF data_type = "Bool" THEN
                            IF (debug_assertions /\ Len(bytes.v) # 1)
                               \/ bytes.v = <<>>
                               \/ offset.byte + 1 > Len(out)
                            THEN unchanged(Panic)
                            ELSE
                            LET new == write_bit(out[offset.byte + 1], offset.bit,
                                                 bytes.v[1])
                            IN  [res |-> Ok(<<>>),
                                 outputs |-> [outputs EXCEPT
                                                ![slave + 1][offset.byte + 1] = new]]
                        ELSE
                            LET c == copy_bytes(out, offset.byte, bytes.v)
                            IN  [res |-> IF c.panic THEN Panic ELSE Ok(<<>>),
                                 outputs |-> [outputs EXCEPT ![slave + 1] = c.out]]

----------------------------------------------------------------------------
(* The Master as a state machine                                           *)

\* what the application passes to set_pdo_value
\* (0x7010:06, 0x1602:01..04 and the unmapped 0x7002:01; U16 0x0AF5)
SlavePositions == 0..(Len(bus) - 1)
EntryIdxs ==
    { <<28688, 6>>, <<5634, 1>>, <<5634, 2>>, <<5634, 3>>,
      <<5634, 4>>, <<28674, 1>> }
\* (a list: payloads of different variants are not comparable)
Values ==
    << [t |-> "Bool", x |-> TRUE], [t |-> "Bool", x |-> FALSE],
       [t |-> "U16", x |-> 2805] >>

\* what a process-data exchange may leave in every byte of a slave's inputs
InputFills == {0, 2}

\* how the engine's config_init and config_dc may end
EngineOutcomes == {"ok", "NoFrame", "OtherFrame", "NoSlaves", "CfgDc"}

\* the application has one thread and one Master
NoThreads == [main |-> "start", rt |-> "none", reads |-> 0]

Init ==
    /\ bus \in Buses
    /\ debug_assertions \in BOOLEAN
    /\ slave_count = 0
    /\ outputs = <<>>
    /\ inputs = <<>>
    /\ sdos = <<>>
    /\ pdo_mapping = <<>>
    /\ last = [op |-> "try_new", res |-> Ok(<<>>)]
    /\ call = [fn |-> "none"]
    /\ threads = NoThreads

\* the io map is not cleared by a new configuration pass: a view that keeps
\* its place keeps its bytes
Mapped(old, type_id) ==
    [i \in 1..Len(bus) |->
        LET size == SliceSize(EngineBits(bus[i], type_id))
        IN  IF i \in DOMAIN old /\ Len(old[i]) = size THEN old[i] ELSE Zeros(size)]

IoMapSize ==
    SumSeq([i \in 1..Len(bus) |-> SliceSize(EngineBits(bus[i], 3))
                                  + SliceSize(EngineBits(bus[i], 4))])

\* (the PDO assignments resolved before the dictionaries are read)
auto_config_requests_coe_first(engine) ==
    << Req("config_init", 0, <<0, 0>>) >>
    \o IF engine \in {"NoFrame", "OtherFrame", "NoSlaves"} THEN <<>>
       ELSE << Req("config_dc", 0, <<0, 0>>) >>
            \o IF engine = "CfgDc" THEN <<>>
               ELSE << Req("config_map_group", 0, <<0, 0>>) >>
                    \o IF IoMapSize <= 0 THEN <<>>
                       ELSE coe_pdo_info_requests(Len(bus), 0)
                            \o scan_requests(Len(bus), 0)

\* the requests auto_config makes to the engine, in the order it makes them
auto_config_requests(engine) ==
    << Req("config_init", 0, <<0, 0>>) >>
    \o IF engine \in {"NoFrame", "OtherFrame", "NoSlaves"} THEN <<>>
       ELSE << Req("config_dc", 0, <<0, 0>>) >>
            \o IF engine = "CfgDc" THEN <<>>
               ELSE << Req("config_map_group", 0, <<0, 0>>) >>
                    \o IF IoMapSize <= 0 THEN <<>>
                       ELSE scan_requests(Len(bus), 0)
                            \o IF scan_slave_objects(Len(bus)).k # "Ok" THEN <<>>
                               ELSE coe_pdo_info_requests(Len(bus), 0)

\* requests are the requests the call has made to the engine
AutoConfig(engine) ==
    LET done(r) == last' = [op |-> "auto_config", res |-> r,
                            requests |-> auto_config_requests(engine)]
        unmapped == [i \in 1..Len(bus) |-> <<>>]
    IN  IF engine \in {"NoFrame", "OtherFrame", "NoSlaves"} THEN
            /\ slave_count' = 0
            /\ outputs' = <<>>
            /\ inputs' = <<>>
            /\ done(Err(<<engine>>))
            /\ UNCHANGED <<threads, bus, debug_assertions, sdos, pdo_mapping, call>>
        ELSE IF engine = "CfgDc" \/ IoMapSize <= 0 THEN
            /\ slave_count' = Len(bus)
            /\ outputs' = unmapped
            /\ inputs' = unmapped
            /\ done(Err(<<IF engine = "CfgDc" THEN "CfgDc" ELSE "CfgMapGroup">>))
            /\ UNCHANGED <<threads, bus, debug_assertions, sdos, pdo_mapping, call>>
        ELSE
            \E dicts \in { scan_slave_objects(Len(bus)) },
               mapping \in { coe_pdo_info(Len(bus)) } :
                /\ slave_count' = Len(bus)
                /\ outputs' = Mapped(outputs, 3)
                /\ inputs' = Mapped(inputs, 4)
                /\ sdos' = IF dicts.k = "Ok" THEN dicts.v ELSE sdos
                /\ pdo_mapping' = IF dicts.k = "Ok" /\ mapping.k = "Ok"
                                  THEN mapping.v ELSE pdo_mapping
                /\ done(IF dicts.k # "Ok" THEN dicts
                        ELSE IF mapping.k # "Ok" THEN mapping ELSE Ok(<<>>))
                /\ UNCHANGED <<threads, bus, debug_assertions, call>>

SendProcessdata(is_err) ==
    /\ last' = [op |-> "send_processdata",
                res |-> IF is_err THEN Err(<<"SendProcessData">>) ELSE Ok(<<>>)]
    /\ UNCHANGED <<threads, bus, debug_assertions, slave_count, outputs, inputs, sdos,
                   pdo_mapping, call>>

RecvProcessdata(is_err, fill) ==
    /\ inputs' = IF is_err THEN inputs
                 ELSE [i \in DOMAIN inputs |-> [j \in DOMAIN inputs[i] |-> fill]]
    /\ last' = [op |-> "recv_processdata",
                res |-> IF is_err THEN Err(<<"RecvProcessData">>) ELSE Ok(<<>>)]
    /\ UNCHANGED <<threads, bus, debug_assertions, slave_count, outputs, sdos,
                   pdo_mapping, call>>

PdoValues ==
    /\ last' = [op |-> "pdo_values", res |-> pdo_values]
    /\ UNCHANGED <<threads, bus, debug_assertions, slave_count, outputs, inputs, sdos,
                   pdo_mapping, call>>

SetPdoValue(slave, idx, v) ==
    LET r == set_pdo_value(slave, idx, v)
    IN  /\ outputs' = r.outputs
        /\ last' = [op |-> "set_pdo_value", slave |-> slave, idx |-> idx,
                    v |-> v, res |-> r.res]
        /\ UNCHANGED <<threads, bus, debug_assertions, slave_count, inputs, sdos,
                       pdo_mapping, call>>

\* read_od_list of a slave the engine has found; requests are the requests
\* the call has made to the engine
ReadOdList(slave) ==
    /\ slave < slave_count
    /\ last' = [op |-> "read_od_list", slave |-> slave, res |-> read_od_list(slave),
                requests |-> read_od_list_requests(slave)]
    /\ UNCHANGED <<threads, bus, debug_assertions, slave_count, outputs, inputs, sdos,
                   pdo_mapping, call>>

Next ==
    \/ \E engine \in EngineOutcomes : AutoConfig(engine)
    \/ \E slave \in SlavePositions : ReadOdList(slave)
    \/ \E is_err \in BOOLEAN : SendProcessdata(is_err)
    \/ \E is_err \in BOOLEAN, fill \in InputFills : RecvProcessdata(is_err, fill)
    \/ PdoValues
    \/ \E slave \in SlavePositions, idx \in EntryIdxs, k \in DOMAIN Values :
            SetPdoValue(slave, idx, Values[k])

Spec == Init /\ [][Next]_vars

----------------------------------------------------------------------------
(* read_sdo_complete, and examples/read_sdo.rs: two Masters on one context *)

\* how a complete-access read of the engine may end: no working counter, or
\* the whole buffer or half of it filled
SdoAnswers == {"fail", "full", "half"}

\* the bytes the slave answers a complete-access read with
SdoReply(n) == [i \in 1..n |-> ((i - 1) * 17 + 3) % 128]

\* the orders in which dict.entries, a HashMap, may hand out the entries of
\* the object idx
EntryOrders(slave, idx) ==
    LET dict == SdosGet(slave)
        keys == IF dict = <<>> THEN {}
                ELSE { e \in DOMAIN dict[1].entries : e[1] = idx }
    IN  { q \in [1..Cardinality(keys) -> keys] :
            \A i, j \in 1..Cardinality(keys) : q[i] = q[j] => i = j }

\* the loop of read_sdo_complete over the (byte count, data type) pairs
RECURSIVE complete_values(_, _, _, _, _)
complete_values(raw, entries, k, byte_pos, values) ==
    IF k > Len(entries) THEN Ok(values)
    ELSE IF byte_pos + entries[k].cnt > Len(raw) THEN Panic
    ELSE The({ IF val.k # "Ok" THEN val
               ELSE complete_values(raw, entries, k + 1,
                                    byte_pos + entries[k].cnt,
                                    Append(values, val.v)) :
               val \in { value_from_slice(entries[k].dt,
                                          SubSeq(raw, byte_pos + 1,
                                                 byte_pos + entries[k].cnt),
                                          0) } })

read_sdo_complete(slave, idx, order, answer) ==
    LET dict == SdosGet(slave)
    IN  IF dict = <<>> THEN Err(<<"IdxNotFound", slave, idx>>)
        ELSE
        LET entries == [k \in DOMAIN order |->
                          LET e == dict[1].entries[order[k]]
                          IN  [cnt |-> IF e.bit_len % 8 = 0 THEN e.bit_len \div 8
                                       ELSE (e.bit_len \div 8) + 1,
                               dt |-> IF e.data_type = NoDataType THEN "Raw"
                                      ELSE e.data_type]]
            max_byte_count == IF entries = <<>> THEN 0
                              ELSE CHOOSE m \in { entries[k].cnt : k \in DOMAIN entries } :
                                     \A k \in DOMAIN entries : entries[k].cnt <= m
            buff_size == max_byte_count * Len(entries)
        IN  IF answer = "fail" THEN Err(<<"ReadSdo", slave, <<idx, 0>>>>)
            ELSE complete_values(SdoReply(IF answer = "full" THEN buff_size
                                          ELSE buff_size \div 2),
                                 entries, 1, 0, <<>>)

\* the objects the example reads, over and over
sdo_idxs == <<4120, 4337, 32916>>

\* the example reads MaxReads times instead of 3 * 1001 times
MaxReads == 3

\* main returns with the first error (the ? operator), and the process ends
MainRuns == threads.main # "exited"

\* master.auto_config()?
MainAutoConfig ==
    /\ threads.main = "start"
    /\ last.op = "try_new"
    /\ \E engine \in EngineOutcomes : AutoConfig(engine)

\* master.request_states(ec::AlState::Op)?
MainRequestStates(write_state) ==
    /\ threads.main = "start"
    /\ last.op = "auto_config"
    /\ last.res.k = "Ok"
    /\ last' = [op |-> "request_states",
                res |-> IF write_state = "NoFrame" THEN Err(<<"NoFrame">>)
                        ELSE IF write_state = "zero" THEN Err(<<"SetState">>)
                        ELSE Ok(<<>>)]
    /\ threads' = [threads EXCEPT
                     !.main = IF write_state = "ok" THEN "requested" ELSE "exited"]
    /\ UNCHANGED <<bus, debug_assertions, slave_count, outputs, inputs, sdos,
                   pdo_mapping, call>>

\* master.check_states(ec::AlState::Op, ..)?: the state found need not be
\* the state asked for
MainCheckStates(found) ==
    /\ threads.main = "requested"
    /\ last' = [op |-> "check_states",
                res |-> IF found = "none" THEN Err(<<"CheckState">>) ELSE Ok(found)]
    /\ threads' = [threads EXCEPT
                     !.main = IF found = "none" THEN "exited" ELSE "operational"]
    /\ UNCHANGED <<bus, debug_assertions, slave_count, outputs, inputs, sdos,
                   pdo_mapping, call>>

\* master.ptr(), thread::spawn and, in the new thread, Master::from_ptr: a
\* second Master on the context of the first
Spawn ==
    /\ threads.main = "operational"
    /\ threads' = [threads EXCEPT !.main = "idle", !.rt = "ready"]
    /\ UNCHANGED <<bus, debug_assertions, slave_count, outputs, inputs, sdos,
                   pdo_mapping, last, call>>

\* master.read_sdo_complete(0, idx, ..) enters the engine ...
MainEnterReadSdo ==
    /\ threads.main = "idle"
    /\ threads.reads < MaxReads
    /\ threads' = [threads EXCEPT !.main = "read_sdo"]
    /\ UNCHANGED <<bus, debug_assertions, slave_count, outputs, inputs, sdos,
                   pdo_mapping, last, call>>

\* ... and returns
MainExitReadSdo(order, answer) ==
    /\ threads.main = "read_sdo"
    /\ \E idx \in { sdo_idxs[(threads.reads % Len(sdo_idxs)) + 1] } :
       \E r \in { read_sdo_complete(0, idx, order, answer) } :
          /\ order \in EntryOrders(0, idx)
          /\ last' = [op |-> "read_sdo_complete", slave |-> 0, idx |-> idx,
                      res |-> r]
          /\ threads' = [threads EXCEPT
                           !.main = IF r.k = "Ok" THEN "idle" ELSE "exited",
                           !.reads = @ + 1]
    /\ UNCHANGED <<bus, debug_assertions, slave_count, outputs, inputs, sdos,
                   pdo_mapping, call>>

\* rt_master.send_processdata() enters the engine ...
RtEnterSend ==
    /\ MainRuns
    /\ threads.rt = "ready"
    /\ threads' = [threads EXCEPT !.rt = "send"]
    /\ UNCHANGED <<bus, debug_assertions, slave_count, outputs, inputs, sdos,
                   pdo_mapping, last, call>>

\* ... and returns; unwrap() ends the thread on an error
RtExitSend(is_err) ==
    /\ MainRuns
    /\ threads.rt = "send"
    /\ last' = [op |-> "send_processdata",
                res |-> IF is_err THEN Err(<<"SendProcessData">>) ELSE Ok(<<>>)]
    /\ threads' = [threads EXCEPT !.rt = IF is_err THEN "panicked" ELSE "sent"]
    /\ UNCHANGED <<bus, debug_assertions, slave_count, outputs, inputs, sdos,
                   pdo_mapping, call>>

\* rt_master.recv_processdata() enters the engine ...
RtEnterRecv ==
    /\ MainRuns
    /\ threads.rt = "sent"
    /\ threads' = [threads EXCEPT !.rt = "recv"]
    /\ UNCHANGED <<bus, debug_assertions, slave_count, outputs, inputs, sdos,
                   pdo_mapping, last, call>>

\* ... and returns
RtExitRecv(is_err, fill) ==
    /\ MainRuns
    /\ threads.rt = "recv"
    /\ inputs' = IF is_err THEN inputs
                 ELSE [i \in DOMAIN inputs |-> [j \in DOMAIN inputs[i] |-> fill]]
    /\ last' = [op |-> "recv_processdata",
                res |-> IF is_err THEN Err(<<"RecvProcessData">>) ELSE Ok(<<>>)]
    /\ threads' = [threads EXCEPT !.rt = IF is_err THEN "panicked" ELSE "received"]
    /\ UNCHANGED <<bus, debug_assertions, slave_count, outputs, sdos,
                   pdo_mapping, call>>

\* for s in rt_master.slaves(): s.inputs(), s.outputs()
RtSlaves ==
    /\ MainRuns
    /\ threads.rt = "received"
    /\ last' = [op |-> "slaves",
                res |-> Ok([i \in 1..slave_count |->
                              [inputs |-> inputs[i], outputs |-> outputs[i]]])]
    /\ threads' = [threads EXCEPT !.rt = "logged"]
    /\ UNCHANGED <<bus, debug_assertions, slave_count, outputs, inputs, sdos,
                   pdo_mapping, call>>

\* rt_master.states() enters the engine ...
RtEnterStates ==
    /\ MainRuns
    /\ threads.rt = "logged"
    /\ threads' = [threads EXCEPT !.rt = "states"]
    /\ UNCHANGED <<bus, debug_assertions, slave_count, outputs, inputs, sdos,
                   pdo_mapping, last, call>>

\* ... and returns: no lowest state, a state that is no AlState, or the
\* state of every slave; the result is only logged
RtExitStates(read_state) ==
    /\ MainRuns
    /\ threads.rt = "states"
    /\ last' = [op |-> "states",
                res |-> IF read_state = "none" THEN Err(<<"ReadStates">>)
                        ELSE IF read_state = "invalid" THEN Err(<<"AlState">>)
                        ELSE Ok([i \in 1..slave_count |-> read_state])]
    /\ threads' = [threads EXCEPT !.rt = "ready"]
    /\ UNCHANGED <<bus, debug_assertions, slave_count, outputs, inputs, sdos,
                   pdo_mapping, call>>

ThreadNext ==
    \/ MainAutoConfig
    \/ \E write_state \in {"ok", "NoFrame", "zero"} : MainRequestStates(write_state)
    \/ \E found \in {"none", "Op", "SafeOp"} : MainCheckStates(found)
    \/ Spawn
    \/ MainEnterReadSdo
    \/ \E answer \in SdoAnswers :
       \E order \in UNION { EntryOrders(0, sdo_idxs[i]) : i \in DOMAIN sdo_idxs } :
          MainExitReadSdo(order, answer)
    \/ RtEnterSend
    \/ \E is_err \in BOOLEAN : RtExitSend(is_err)
    \/ RtEnterRecv
    \/ \E is_err \in BOOLEAN, fill \in InputFills : RtExitRecv(is_err, fill)
    \/ RtSlaves
    \/ RtEnterStates
    \/ \E read_state \in {"none", "invalid", "Op", "SafeOp"} : RtExitStates(read_state)

ThreadSpec == Init /\ [][ThreadNext]_vars

----------------------------------------------------------------------------
(* The free functions on their own: a call is drawn with its arguments,    *)
(* then runs once.                                                         *)

Pending == [k |-> "Pending"]

\* ethercat_types::DataType, the variants value_from_slice names and two of
\* those it leaves to its catch-all arm
DataTypes ==
    { "Bool", "Byte", "I8", "I16", "I32", "I64", "U8", "U16", "U32", "U64",
      "F32", "F64", "String", "U8Array", "Raw", "U16Array", "Bit3" }

BitOffsets == 0..7

\* the byte slices handed to value_from_slice: every single byte, and longer
\* ones whose unsigned value stays below 2^31
Slices ==
    { <<>> }
    \cup { <<b>> : b \in 0..255 }
    \cup { <<b, c>> : b \in {0, 32, 128, 251}, c \in {0, 255} }
    \cup { <<1, 2, 3>>, <<102, 102, 246, 64>>, <<255, 255, 255, 127>>,
           <<245, 10, 0, 0, 0, 0, 0, 0>> }

\* the Values handed to value_to_bytes (a list: payloads of different
\* variants are not comparable).  F32 0x40F66666 is 7.7, 0x7FC00000 a NaN.
CodecValues ==
    << [t |-> "Bool", x |-> TRUE], [t |-> "Bool", x |-> FALSE],
       [t |-> "Byte", x |-> 0], [t |-> "Byte", x |-> 255],
       [t |-> "I8", x |-> -128], [t |-> "I8", x |-> -1], [t |-> "I8", x |-> 127],
       [t |-> "I16", x |-> -32768], [t |-> "I16", x |-> 2805],
       [t |-> "I32", x |-> -2147483647 - 1], [t |-> "I32", x |-> 2147483647],
       [t |-> "I64", x |-> -1], [t |-> "I64", x |-> 2147483647],
       [t |-> "U8", x |-> 0], [t |-> "U8", x |-> 200],
       [t |-> "U16", x |-> 2805], [t |-> "U16", x |-> 65535],
       [t |-> "U32", x |-> 0], [t |-> "U32", x |-> 2147483647],
       [t |-> "U64", x |-> 1], [t |-> "U64", x |-> 2147483647],
       [t |-> "F32", x |-> 1089889894], [t |-> "F32", x |-> 2143289344],
       [t |-> "F64", x |-> 0], [t |-> "F64", x |-> 1],
       [t |-> "Raw", x |-> <<>>], [t |-> "Raw", x |-> <<7>>],
       [t |-> "Raw", x |-> <<1, 2, 3>>],
       [t |-> "String", x |-> <<97>>], [t |-> "U8Array", x |-> <<1, 2>>] >>

CodecCalls ==
    \/ \E dt \in DataTypes, raw \in Slices, bit_offset \in BitOffsets :
          call = [fn |-> "value_from_slice", dt |-> dt, raw |-> raw,
                  bit_offset |-> bit_offset, res |-> Pending]
    \/ \E k \in DOMAIN CodecValues :
          call = [fn |-> "value_to_bytes", v |-> CodecValues[k], res |-> Pending]
    \/ \E k \in DOMAIN CodecValues, bit_offset \in BitOffsets :
          call = [fn |-> "round_trip", v |-> CodecValues[k],
                  bit_offset |-> bit_offset, res |-> Pending]

\* the largest number of PDOs in a list handed to process_data and pdo_offsets
MaxPdos == 3

Entry(idx, sub_idx, bit_len) == [sdo |-> <<idx, sub_idx>>, bit_len |-> bit_len]

\* The PDOs the lists are made of: 0x1600, 0x1601 and 0x1602 as the devices
\* map them, and
\*   0x1603: 0x7003:01 (8 bits, not in the dictionary), 0x7004:01 (U16Array)
\*   0x1604: 0x7002:01 (U8) with a bit length of 0
\*   0x1605: 0x7005:01 (U16) with a bit length of 8
\*   0x1606: 0x7006:01 (8 bits, in the dictionary without a data type)
FnPdos ==
    << [idx |-> 5632, entries |-> << Entry(28673, 3, 32) >>],
       [idx |-> 5633, entries |-> << Entry(28688, 2, 1), Entry(28688, 6, 1) >>],
       [idx |-> 5634, entries |-> << Entry(5634, 1, 8), Entry(5634, 2, 1),
                                     Entry(5634, 3, 1), Entry(5634, 4, 16) >>],
       [idx |-> 5635, entries |-> << Entry(28675, 1, 8), Entry(28676, 1, 16) >>],
       [idx |-> 5636, entries |-> << Entry(28674, 1, 0) >>],
       [idx |-> 5637, entries |-> << Entry(28677, 1, 8) >> ],
       [idx |-> 5638, entries |-> << Entry(28678, 1, 8) >> ] >>

FnDict ==
    [objects |-> <<>>, entries |-> DeviceOd
        @@ (<<28676, 1>> :> [data_type |-> "U16Array", bit_len |-> 16])
        @@ (<<28677, 1>> :> [data_type |-> "U16", bit_len |-> 16])
        @@ (<<28678, 1>> :> [data_type |-> NoDataType, bit_len |-> 8])]

PdoListsUpTo(n) ==
    { [k \in DOMAIN q |-> FnPdos[q[k]]] : q \in SeqsUpTo(DOMAIN FnPdos, n) }

\* the buffers process_data reads: the one of the test of src/lib.rs
\* (7.7_f32 and 0b0000_0010), 16 bytes that all differ, and none
FnData ==
    { <<102, 102, 246, 64, 2>>, [i \in 1..16 |-> (37 * i + 5) % 128], <<>> }

\* the object access words handed to access_from_u16: every low byte under
\* five high bytes
AccessWords == { 256 * h + l : h \in {0, 1, 85, 170, 255}, l \in 0..255 }

\* the packed descriptors pdo_entry_info reads: those of the modelled PDOs
\* and the corners of the three fields (a descriptor stays below 2^31)
PackedWords ==
    UNION { { PdoObject[i][e] : e \in DOMAIN PdoObject[i] } : i \in DOMAIN PdoObject }
    \cup { Packed(idx, sub, bit_len) : idx \in {0, 1, 255, 256, 32767},
                                       sub \in {0, 1, 6, 128, 255},
                                       bit_len \in {0, 1, 8, 128, 255} }

AccessorCalls ==
    \/ \E data \in PackedWords :
          call = [fn |-> "pdo_entry_info", data |-> data, res |-> Pending]
    \/ \E x \in AccessWords :
          call = [fn |-> "access_from_u16", x |-> x, res |-> Pending]
    \/ \E data \in FnData, pdos \in PdoListsUpTo(MaxPdos),
          dict \in { <<>>, << FnDict >> } :
          call = [fn |-> "process_data", data |-> data, pdos |-> pdos,
                  dict |-> dict, res |-> Pending]
    \/ \E pdos \in PdoListsUpTo(MaxPdos) :
          call = [fn |-> "pdo_offsets", pdos |-> pdos, res |-> Pending]

FnInit ==
    /\ bus = <<MailboxDevice>>
    /\ debug_assertions \in BOOLEAN
    /\ slave_count = 0
    /\ outputs = <<>>
    /\ inputs = <<>>
    /\ sdos = <<>>
    /\ pdo_mapping = <<>>
    /\ last = [op |-> "try_new", res |-> Ok(<<>>)]
    /\ threads = NoThreads
    /\ (CodecCalls \/ AccessorCalls)

Returns(r) ==
    /\ call.res = Pending
    /\ call' = [call EXCEPT !.res = r]
    /\ UNCHANGED <<threads, bus, debug_assertions, slave_count, outputs, inputs, sdos,
                   pdo_mapping, last>>

ValueFromSlice ==
    /\ call.fn = "value_from_slice"
    /\ Returns(value_from_slice(call.dt, call.raw, call.bit_offset))

ValueToBytes ==
    /\ call.fn = "value_to_bytes"
    /\ Returns(value_to_bytes(call.v))

\* value_from_slice(dt, &value_to_bytes(v)?, bit_offset), dt the data type of
\* v's variant
RoundTrip ==
    /\ call.fn = "round_trip"
    /\ LET bytes == value_to_bytes(call.v)
       IN  Returns(IF bytes.k # "Ok" THEN bytes
                   ELSE value_from_slice(call.v.t, bytes.v, call.bit_offset))

ProcessData ==
    /\ call.fn = "process_data"
    /\ LET r == process_data(call.data, call.pdos, call.dict)
       IN  Returns(IF r.panic THEN Panic ELSE Ok(r.values))

PdoOffsets ==
    /\ call.fn = "pdo_offsets"
    /\ Returns(Ok(pdo_offsets(call.pdos)))

AccessFromU16 ==
    /\ call.fn = "access_from_u16"
    /\ Returns(Ok(access_from_u16(call.x)))

\* pdo_entry_info once read_sdo has filled val with call.data
PdoEntryInfoOf ==
    /\ call.fn = "pdo_entry_info"
    /\ Returns(Ok(PdoEntryInfo(call.data)))

FnNext ==
    \/ AccessFromU16
    \/ PdoEntryInfoOf
    \/ ValueFromSlice
    \/ ValueToBytes
    \/ RoundTrip
    \/ ProcessData
    \/ PdoOffsets

FnSpec == FnInit /\ [][FnNext]_vars

----------------------------------------------------------------------------
(* The value codec                                                         *)

Returned(fn) == call.fn = fn /\ call.res.k # "Pending"

\* byte b with every bit but bit k cleared
OnlyBit(b, k) == ((b \div 2^k) % 2) * 2^k

\* C10: for a non-empty slice and a bit offset in 0..7, value_from_slice of a
\* Bool is Bool(true) exactly when bit bit_offset of raw[0] is set; the other
\* bits of raw[0] and the bytes after it do not matter: the result is that of
\* decoding the one byte that keeps only this bit.
C10_BoolDecodeReadsOneBit ==
    (Returned("value_from_slice") /\ call.dt = "Bool" /\ call.raw # <<>>)
        => /\ call.res = Ok([t |-> "Bool",
                             x |-> (call.raw[1] \div 2^(call.bit_offset)) % 2 = 1])
           /\ call.res = value_from_slice("Bool",
                             << OnlyBit(call.raw[1], call.bit_offset) >>,
                             call.bit_offset)

\* 0b1111_1011 followed by 0xFF, decoded at bit 2: false
C10_Witness ==
    /\ Returned("value_from_slice")
    /\ call.dt = "Bool"
    /\ call.raw = <<251, 255>>
    /\ call.bit_offset = 2
    /\ call.res = Ok([t |-> "Bool", x |-> FALSE])

\* the same variant and the same payload (a float's bit for bit)
SameValue(a, b) == a.t = b.t /\ a.x = b.x

RoundTrips == call.res.k = "Ok" /\ SameValue(call.res.v, call.v)

\* C7 as stated: for every non-String type of the codec, every value v of it
\* and every bit offset 0..7, value_from_slice(type, value_to_bytes(v),
\* bit_offset) == v.
C7_RoundTripAtEveryOffset ==
    (Returned("round_trip") /\ call.v.t \notin {"String", "U8Array"})
        => RoundTrips

\* C7, amended: the round trip holds at every bit offset 0..7 for every
\* value that is neither a Bool nor the empty Raw, and for a Bool at bit
\* offset 0 (floats compared bit for bit).
C7_RoundTripAmended ==
    (/\ Returned("round_trip")
     /\ call.v.t \notin {"String", "U8Array"}
     /\ call.v.t = "Bool" => call.bit_offset = 0
     /\ call.v.t = "Raw" => Len(call.v.x) > 0)
        => RoundTrips

\* U16 0x0AF5 through the codec at bit offset 3
C7_Witness ==
    /\ Returned("round_trip")
    /\ call.v.t = "U16"
    /\ call.v.x = 2805
    /\ call.bit_offset = 3
    /\ RoundTrips

----------------------------------------------------------------------------
(* Offsets and decoding of one PDO list                                    *)

\* the entries of a PDO list, in PDO order and then entry order
RECURSIVE FlatEntries(_)
FlatEntries(pdos) ==
    IF pdos = <<>> THEN <<>> ELSE Head(pdos).entries \o FlatEntries(Tail(pdos))

\* S: the bit lengths of the entries before the k-th, summed
BitsBefore(es, k) == SumSeq([i \in 1..(k - 1) |-> es[i].bit_len])

\* C9: pdo_offsets returns one (EntryIndex, Offset) per entry, in PDO order
\* and then entry order; the k-th offset is (byte = S div 8, bit = S mod 8)
\* with S the summed bit lengths of all entries before the k-th across the
\* PDOs of the list (0 for the first, not reset at a PDO boundary), and bit
\* is in 0..7.
C9_OffsetsAreCumulative ==
    Returned("pdo_offsets") =>
        LET es == FlatEntries(call.pdos)
            got == call.res.v
        IN  /\ Len(got) = Len(es)
            /\ \A k \in 1..Len(es) :
                  /\ got[k][1] = es[k].sdo
                  /\ got[k][2].byte = BitsBefore(es, k) \div 8
                  /\ got[k][2].bit = BitsBefore(es, k) % 8
                  /\ got[k][2].bit \in 0..7

\* the list of the test of src/lib.rs: 0x7010:06 of PDO 0x1601, behind the
\* 32 bits of PDO 0x1600 and the bit of 0x7010:02, is at byte 4, bit 1
C9_Witness ==
    /\ Returned("pdo_offsets")
    /\ Len(call.pdos) = 2
    /\ call.pdos[1].idx = 5632
    /\ call.pdos[2].idx = 5633
    /\ call.res.v[3] = << <<28688, 6>>, [bit |-> 1, byte |-> 4] >>

\* the bytes and the bit offset the k-th entry of the list is decoded from
EntrySlice(data, es, k) ==
    LET S == BitsBefore(es, k)
        first == S \div 8
        n == (es[k].bit_len + 7) \div 8
        in_range == first + n <= Len(data)
    IN  [in_range |-> in_range,
         raw |-> IF in_range THEN SubSeq(data, first + 1, first + n) ELSE <<>>,
         bit |-> S % 8]

\* what the k-th entry decodes to, its data type taken from the dictionary
\* and Raw without one
EntryValue(data, es, dict, k) ==
    LET found == EntryDataType(dict, es[k].sdo)
        slice == EntrySlice(data, es, k)
    IN  value_from_slice(IF found = NoDataType THEN "Raw" ELSE found,
                         slice.raw, slice.bit)

EveryEntryDecodable(data, es, dict) ==
    \A k \in 1..Len(es) :
        /\ EntrySlice(data, es, k).in_range
        /\ EntryValue(data, es, dict, k).k = "Ok"

\* C8: when every entry of the list is decodable, process_data returns one
\* (EntryIndex, Value) pair per entry, in PDO order and then entry order; the
\* k-th pair carries the k-th entry's EntryIndex and the value decoded from
\* ceil(bit_len / 8) bytes from byte floor(S / 8) on, at bit offset S mod 8,
\* with S the summed bit lengths of the entries before it.
C8_OnePairPerEntry ==
    LET es == FlatEntries(call.pdos)
    IN  (Returned("process_data")
         /\ EveryEntryDecodable(call.data, es, call.dict))
            => /\ call.res.k = "Ok"
               /\ Len(call.res.v) = Len(es)
               /\ \A k \in 1..Len(es) :
                     /\ call.res.v[k][1] = es[k].sdo
                     /\ SameValue(call.res.v[k][2],
                                  EntryValue(call.data, es, call.dict, k).v)

\* the test of src/lib.rs: 7.7_f32 and 0b0000_0010 decode to F32(7.7),
\* Bool(false), Bool(true)
C8_Witness ==
    /\ Returned("process_data")
    /\ call.data = <<102, 102, 246, 64, 2>>
    /\ call.dict # <<>>
    /\ Len(call.pdos) = 2
    /\ call.pdos[1].idx = 5632
    /\ call.pdos[2].idx = 5633
    /\ call.res = Ok(<< << <<28673, 3>>, [t |-> "F32", x |-> 1089889894] >>,
                        << <<28688, 2>>, [t |-> "Bool", x |-> FALSE] >>,
                        << <<28688, 6>>, [t |-> "Bool", x |-> TRUE] >> >>)

----------------------------------------------------------------------------
(* The layout of a slave's process data                                    *)

\* the assignments of one direction the Master holds for a position, in
\* assignment order
AssignmentsOf(slave, dir) ==
    LET a == PdoMappingGet(slave)
    IN  IF a = <<>> THEN <<>> ELSE SelectSeq(a[1], LAMBDA x : x.sm_type = dir)

\* the entries of these assignments: sync manager by sync manager, PDO by PDO
RECURSIVE DirEntries(_)
DirEntries(assignments) ==
    IF assignments = <<>> THEN <<>>
    ELSE FlatEntries(Head(assignments).pdos) \o DirEntries(Tail(assignments))

\* the resolver skipped no slave: position p's assignments are pdo_mapping's
\* element p
Aligned == Len(pdo_mapping) = slave_count

Buffer(slave, dir) ==
    IF dir = "Outputs" THEN outputs[slave + 1] ELSE inputs[slave + 1]

\* The bit spans [from, to) the entries of these assignments are read from:
\* pdo_values hands each assignment's PDO list to process_data with the
\* whole buffer of its direction, and process_data lays the list out as
\* pdo_offsets does.
RECURSIVE ReadSpans(_)
ReadSpans(assignments) ==
    IF assignments = <<>> THEN <<>>
    ELSE LET pdos == Head(assignments).pdos
             es == FlatEntries(pdos)
             at == pdo_offsets(pdos)
         IN  [k \in 1..Len(es) |->
                 [from |-> 8 * at[k][2].byte + at[k][2].bit,
                  to |-> 8 * at[k][2].byte + at[k][2].bit + es[k].bit_len]]
             \o ReadSpans(Tail(assignments))

\* the spans start at bit 0, each starts where the one before it ends, and
\* they end in the last byte of a region of `size` bytes
Tiles(spans, size) ==
    /\ spans # <<>> => spans[1].from = 0
    /\ \A k \in 1..(Len(spans) - 1) : spans[k + 1].from = spans[k].to
    /\ ((IF spans = <<>> THEN 0 ELSE spans[Len(spans)].to) + 7) \div 8 = size

\* C1: after a configuration pass, for every slave and each direction, the
\* bit spans of the mapped entries, in assignment order, tile the direction's
\* region: the first starts at bit 0, each next one where the one before it
\* ends, and together they are as long as the region.  (Stated where the
\* resolver skipped no slave.)
C1_EntriesTileTheRegions ==
    (last.op = "auto_config" /\ last.res.k = "Ok" /\ Aligned) =>
        \A slave \in 0..(slave_count - 1), dir \in {"Outputs", "Inputs"} :
            Tiles(ReadSpans(AssignmentsOf(slave, dir)),
                  Len(Buffer(slave, dir)))

\* the pairs a direction's entries decode to when the running bit offset
\* runs on across the direction's sync managers
DirValues(slave, dir) ==
    LET es == DirEntries(AssignmentsOf(slave, dir))
    IN  [k \in 1..Len(es) |->
            << es[k].sdo,
               EntryValue(Buffer(slave, dir), es, SdosGet(slave), k) >>]

SamePairs(got, want) ==
    /\ Len(got) = Len(want)
    /\ \A k \in 1..Len(want) :
          /\ got[k][1] = want[k][1]
          /\ want[k][2].k = "Ok"
          /\ SameValue(got[k][2], want[k][2].v)

\* the first Outputs entry with this index, as a position in the direction
FirstAt(es, idx) == CHOOSE k \in 1..Len(es) :
    es[k].sdo = idx /\ \A j \in 1..(k - 1) : es[j].sdo # idx

IsSet(byte, bit) == (byte \div 2^bit) % 2 = 1

\* C2: the bit offset runs on across the sync managers and PDOs of one
\* direction.  What pdo_values returns for a slave is every Outputs entry and
\* then every Inputs entry decoded at the summed bit lengths of the entries
\* before it in its direction; and a Bool that set_pdo_value wrote is found
\* at that offset of the outputs.  (Stated where the resolver skipped no
\* slave.)
C2_OffsetRunsAcrossSyncManagers ==
    /\ (last.op = "pdo_values" /\ last.res.k = "Ok" /\ Aligned) =>
          \A slave \in 0..(slave_count - 1) :
              SamePairs(last.res.v[slave + 1],
                        DirValues(slave, "Outputs") \o DirValues(slave, "Inputs"))
    /\ (/\ last.op = "set_pdo_value"
        /\ last.res.k = "Ok"
        /\ Aligned
        /\ last.v.t = "Bool"
        /\ EntryDataType(SdosGet(last.slave), last.idx) = "Bool") =>
          LET es == DirEntries(AssignmentsOf(last.slave, "Outputs"))
              S == BitsBefore(es, FirstAt(es, last.idx))
          IN  IsSet(outputs[last.slave + 1][S \div 8 + 1], S % 8) = last.v.x

\* the EntryIndex is mapped in a sync manager of this direction
MappedIn(slave, dir, idx) ==
    \E k \in DOMAIN DirEntries(AssignmentsOf(slave, dir)) :
        DirEntries(AssignmentsOf(slave, dir))[k].sdo = idx

\* C3: set_pdo_value finds its target by EntryIndex alone: for an
\* EntryIndex mapped in an Outputs sync manager of the slave, with a data
\* type in the object dictionary, and a Value of that type, the call returns
\* Ok, whatever the index of the PDO that carries the entry.  (Stated where
\* the resolver skipped no slave.)
C3_TargetFoundByEntryIndex ==
    (/\ last.op = "set_pdo_value"
     /\ Aligned
     /\ last.slave < slave_count
     /\ MappedIn(last.slave, "Outputs", last.idx)
     /\ EntryDataType(SdosGet(last.slave), last.idx) = last.v.t)
        => last.res.k = "Ok"

----------------------------------------------------------------------------
(* Writes to the outputs                                                   *)

\* the step is a call of set_pdo_value that returned Ok
WroteOk == last'.op = "set_pdo_value" /\ last'.res.k = "Ok"

\* the entries set_pdo_value looks the target up in, and the target's place
\* and bit offset among them
TargetEntries == FlatEntries(PdoMappingOutputs(last'.slave)[1].pdos)
Target == FirstAt(TargetEntries, last'.idx)
TargetBit == BitsBefore(TargetEntries, Target)

\* every output byte of every slave but those of the written slave from
\* Rust index `from` up to, not including, index `to` is as it was
OtherBytesKept(from, to) ==
    /\ Len(outputs') = Len(outputs)
    /\ \A p \in DOMAIN outputs :
          /\ Len(outputs'[p]) = Len(outputs[p])
          /\ \A j \in DOMAIN outputs[p] :
                (p # last'.slave + 1 \/ j - 1 < from \/ j - 1 >= to)
                    => outputs'[p][j] = outputs[p][j]

\* C4: a set_pdo_value of a Bool entry that returns Ok changes the one bit
\* at the entry's (byte_offset, bit_offset) at most: Bool(true) sets it and
\* Bool(false) clears it, every other bit of that byte and every other byte
\* of the outputs is as it was, whatever the outputs held.
C4_BoolWriteChangesOneBit ==
    [][(WroteOk /\ EntryDataType(SdosGet(last'.slave), last'.idx) = "Bool") =>
          LET byte == TargetBit \div 8
              old == outputs[last'.slave + 1][byte + 1]
              new == outputs'[last'.slave + 1][byte + 1]
          IN  /\ OtherBytesKept(byte, byte + 1)
              /\ \A b \in 0..7 : b # TargetBit % 8 => IsSet(new, b) = IsSet(old, b)
              /\ last'.v.t = "Bool" => IsSet(new, TargetBit % 8) = last'.v.x
      ]_vars

\* Bool(true) written to 0x1602:02, bit 0 of a byte that held 0b0000_1010
C4_Witness ==
    /\ last.op = "set_pdo_value"
    /\ last.res.k = "Ok"
    /\ last.idx = <<5634, 2>>
    /\ last.v.t = "Bool"
    /\ last.v.x
    /\ outputs[last.slave + 1][2] = 11

\* the bytes of the written slave's outputs from Rust index `from` on are
\* the bytes `bytes`
BytesAre(from, bytes) ==
    \A i \in DOMAIN bytes : outputs'[last'.slave + 1][from + i] = bytes[i]

NonBoolEntry ==
    EntryDataType(SdosGet(last'.slave), last'.idx) \notin {"Bool", NoDataType}

C6_UnmappedTargetIsAnError ==
    [][(/\ last'.op = "set_pdo_value"
        /\ ~MappedIn(last'.slave, "Outputs", last'.idx)) =>
          /\ last'.res.k = "Err"
          /\ last'.res.e[1] \in {"NoOutputPdos", "PdoEntryNotFound"}
          /\ outputs' = outputs
      ]_vars

\* 0x1602:01 asked of a slave that maps it in its Inputs sync manager only
C6_Witness ==
    /\ last.op = "set_pdo_value"
    /\ last.idx = <<5634, 1>>
    /\ MappedIn(last.slave, "Inputs", last.idx)
    /\ ~MappedIn(last.slave, "Outputs", last.idx)
    /\ last.res.k = "Err"
    /\ last.res.e[1] = "PdoEntryNotFound"

----------------------------------------------------------------------------
(* Entries that cannot be decoded                                          *)

\* the dictionary keeps the entry, without a data type
Untyped(dict, sdo) ==
    /\ dict # <<>>
    /\ sdo \in DOMAIN dict[1].entries
    /\ dict[1].entries[sdo].data_type = NoDataType

\* C11: an entry the dictionary keeps without a data type is never decoded:
\* process_data returns no value for it, of whatever type.
C11_UntypedEntryIsNeverDecoded ==
    (Returned("process_data") /\ call.res.k = "Ok") =>
        \A k \in DOMAIN call.res.v : ~Untyped(call.dict, call.res.v[k][1])

\* C12: value_from_slice of an empty slice returns the error
\* ValueFromEmptyBuf, for every data type and bit offset; it does not panic
\* and returns no value.
C12_EmptySliceIsAnError ==
    (Returned("value_from_slice") /\ call.raw = <<>>) =>
        /\ call.res.k = "Err"
        /\ call.res.e = <<"ValueFromEmptyBuf">>

\* the pairs of the entries from the k-th on that decode, each decoded at
\* its own running offset
RECURSIVE DecodedFrom(_, _, _, _)
DecodedFrom(data, es, dict, k) ==
    IF k > Len(es) THEN <<>>
    ELSE LET r == EntryValue(data, es, dict, k)
         IN  (IF r.k = "Ok" THEN << <<es[k].sdo, r.v>> >> ELSE <<>>)
             \o DecodedFrom(data, es, dict, k + 1)

SamePairList(a, b) ==
    /\ Len(a) = Len(b)
    /\ \A k \in DOMAIN a : a[k][1] = b[k][1] /\ SameValue(a[k][2], b[k][2])

\* C13: when the buffer holds the bytes of every entry, process_data returns
\* whatever entries fail to decode, and its result is the pairs of the
\* entries that decode, in entry order, each with the EntryIndex and the
\* value decoded at the summed bit lengths of all entries before it, those
\* that failed included.
C13_DecodeFailureOmitsOneEntry ==
    LET es == FlatEntries(call.pdos)
    IN  (/\ Returned("process_data")
         /\ \A k \in 1..Len(es) : EntrySlice(call.data, es, k).in_range)
            => /\ call.res.k = "Ok"
               /\ SamePairList(call.res.v,
                               DecodedFrom(call.data, es, call.dict, 1))

----------------------------------------------------------------------------
(* The PDO assignments of a slave                                          *)

\* the positions coe_pdo_info pushes a list for (those whose 0x1C00:0 is
\* above 2), in bus order: the k-th list of the mapping is the k-th's
ResolvedSlaves ==
    SelectSeq([i \in 1..Len(bus) |-> i - 1], LAMBDA p : bus[p + 1].sm_objs > 2)

\* the process-data sync managers of a device among those 0x1C00:0 counts,
\* with their direction
ProcessDataSms(dev) ==
    { <<sm, IF DeviceSmType(dev)[sm + 1] = 3 THEN "Outputs" ELSE "Inputs">> :
        sm \in { x \in 2..(dev.sm_objs - 1) : DeviceSmType(dev)[x + 1] \in {3, 4} } }

\* C14: the PdoAssignment list of a slave holds each of its Outputs and
\* Inputs sync managers once and no sync manager of another type; no Inputs
\* assignment comes before an Outputs one, and assignments of the same type
\* come in ascending sync-manager index.
C14_OutputsThenInputsAscending ==
    \A k \in DOMAIN pdo_mapping :
        LET list == pdo_mapping[k]
            dev == bus[ResolvedSlaves[k] + 1]
        IN  /\ \A i \in DOMAIN list : list[i].sm_type \in {"Outputs", "Inputs"}
            /\ { <<list[i].sm, list[i].sm_type>> : i \in DOMAIN list }
                  = ProcessDataSms(dev)
            /\ Len(list) = Cardinality(ProcessDataSms(dev))
            /\ \A i, j \in DOMAIN list :
                  i < j => /\ ~(list[i].sm_type = "Inputs"
                                /\ list[j].sm_type = "Outputs")
                           /\ list[i].sm_type = list[j].sm_type
                                 => list[i].sm < list[j].sm

\* the slave that reports SM2 as MbxRd, SM3 as Inputs and SM4 as Outputs:
\* SM4 first, then SM3, and no SM2
C14_Witness ==
    /\ bus[1].types = <<2, 4, 3>>
    /\ Len(pdo_mapping) = 1
    /\ Len(pdo_mapping[1]) = 2
    /\ pdo_mapping[1][1].sm = 4
    /\ pdo_mapping[1][1].sm_type = "Outputs"
    /\ pdo_mapping[1][2].sm = 3
    /\ pdo_mapping[1][2].sm_type = "Inputs"

----------------------------------------------------------------------------
(* A configuration pass that fails                                         *)

\* auto_config ended in an error of the dictionary scan or of the resolver
FailedInDiscovery ==
    /\ last.op = "auto_config"
    /\ last.res.k = "Err"
    /\ last.res.e[1] \in {"ReadOdList", "ReadOdDesc", "ReadOeList", "ReadSdo",
                          "InvalidSmType"}

\* the pass completed the dictionary of every slave up to position p
ScannedUpTo(p) == \A q \in 0..p : read_od_list(q).k = "Ok"

\* the pass completed the PDO map of every slave up to position p
ResolvedUpTo(p) ==
    /\ ScannedUpTo(slave_count - 1)
    /\ \A q \in 0..p : slave_pdo_mapping(slave_count, q).k = "Ok"

\* C15: after an auto_config that failed in the scan or in the resolver for
\* one slave, the Master still offers what the pass had completed: the
\* object dictionary of every slave scanned before the failure and the PDO
\* map of every slave resolved before it.
C15_CompletedResultsRemain ==
    FailedInDiscovery =>
        \A p \in 0..(slave_count - 1) :
            /\ ScannedUpTo(p) => SdosGet(p) = << read_od_list(p).v >>
            /\ ResolvedUpTo(p) =>
                  PdoMappingGet(p) = slave_pdo_mapping(slave_count, p).v

\* C16: an auto_config call leaves the cached dictionaries and the cached
\* PDO mapping both as they were, or leaves both holding what this call has
\* built; it never stores the one without the other.
C16_BothCachesOrNeither ==
    [][last'.op = "auto_config" =>
          \/ sdos' = sdos /\ pdo_mapping' = pdo_mapping
          \/ /\ scan_slave_objects(slave_count').k = "Ok"
             /\ sdos' = scan_slave_objects(slave_count').v
             /\ coe_pdo_info(slave_count').k = "Ok"
             /\ pdo_mapping' = coe_pdo_info(slave_count').v
      ]_vars

----------------------------------------------------------------------------
(* What an error tells                                                     *)

\* the Error variants with a SlavePos field, holding the position `slave`
NamesSlave(e, slave) ==
    /\ e[1] \in {"ReadOdList", "ReadSdo", "IdxNotFound", "SubIdxNotFound",
                 "WriteSdo", "NoOutputPdos", "SlaveNotFound"}
    /\ e[2] = slave

\* C18: an error returned by read_od_list or by set_pdo_value carries the
\* position of the slave the call was made for, and an error of the scan or
\* of the resolver returned by auto_config carries the position of a slave of
\* the bus.
C18_ErrorsNameTheSlave ==
    /\ (last.op \in {"read_od_list", "set_pdo_value"} /\ last.res.k = "Err")
          => NamesSlave(last.res.e, last.slave)
    /\ FailedInDiscovery
          => \E slave \in 0..(slave_count - 1) : NamesSlave(last.res.e, slave)

\* the errors auto_config returns for what the engine reports before the
\* dictionary scan
EngineErrors == {"NoFrame", "OtherFrame", "NoSlaves", "CfgDc", "CfgMapGroup"}

Healthy(dev) == dev.sdo_fail = {} /\ dev.od_fail = NoFault

\* C19: on a bus of healthy slaves one of which reports in 0x1C00:0 more
\* than 8 defined sync managers (count - 1 > 8), auto_config resolves that
\* slave over its sync managers 2..=8: the call fails for what the engine
\* reports only, and when it succeeds the mapping holds a list for the
\* slave.
C19_ClampingIsNotAnError ==
    (/\ last.op = "auto_config"
     /\ \A i \in DOMAIN bus : Healthy(bus[i])
     /\ \E i \in DOMAIN bus : bus[i].sm_objs - 1 > MAX_SM_CNT)
        => IF last.res.k = "Err" THEN last.res.e[1] \in EngineErrors
           ELSE Len(pdo_mapping) = Len(ResolvedSlaves)

----------------------------------------------------------------------------
(* The dictionary read_od_list builds                                      *)

\* C20: the dictionary of a successful read_od_list holds, for every object
\* the engine lists, the max_sub + 1 entries of the subindexes 0..=max_sub,
\* keyed by (index, subindex), with the listed bit length and the data type
\* of the listed code (none for a code that names no data type), and one
\* ObjectInfo; it holds nothing else.  Entries without a data type or with
\* a bit length of 0 are among them.
C20_OneEntryPerSubindex ==
    (last.op = "read_od_list" /\ last.res.k = "Ok") =>
        LET dict == last.res.v
            Listed == { OdObjects[i] : i \in DOMAIN OdObjects }
        IN  /\ DOMAIN dict.entries
                 = UNION { { <<o.index, j>> : j \in 0..o.max_sub } : o \in Listed }
            /\ \A o \in Listed :
                  /\ Cardinality({ e \in DOMAIN dict.entries : e[1] = o.index })
                        = o.max_sub + 1
                  /\ \A j \in 0..o.max_sub :
                        /\ dict.entries[<<o.index, j>>].bit_len
                              = o.oes[j + 1].bit_len
                        /\ dict.entries[<<o.index, j>>].data_type
                              = DataTypeFromU16(o.oes[j + 1].dt)
            /\ DOMAIN dict.objects = { o.index : o \in Listed }
            /\ \A o \in Listed : dict.objects[o.index].max_sub_idx = o.max_sub

\* the dictionary of a slave keeps 0x7002:02, whose code names no data type,
\* and 0x7002:03, whose bit length is 0
C20_Witness ==
    /\ last.op = "read_od_list"
    /\ last.res.k = "Ok"
    /\ last.res.v.entries[<<28674, 2>>] = [data_type |-> NoDataType, bit_len |-> 8]
    /\ last.res.v.entries[<<28674, 3>>] = [data_type |-> "U16", bit_len |-> 0]
    /\ Cardinality(DOMAIN last.res.v.entries) = 5 + 4 + 4 + 7 + 3

----------------------------------------------------------------------------
\* the threads inside a process-data exchange, and those inside any call of
\* the engine, on the one context
Exchanging == { t \in {"main", "rt"} : threads[t] \in {"send", "recv"} }
InEngine ==
    { t \in {"main", "rt"} : threads[t] \in {"send", "recv", "states", "read_sdo"} }

\* C17: on one engine context at most one actor is inside a process-data
\* exchange at any time, and no other call of the engine on that context
\* runs while an exchange is in progress, in every interleaving the public
\* interface allows, a second Master built with ptr and from_ptr included.
C17_ExchangeIsExclusive ==
    \A t \in Exchanging : InEngine \subseteq {t}

----------------------------------------------------------------------------
(* The order of the requests of a dictionary walk                          *)

\* the n-th request of a walk that meets no failure: the object list, then
\* for item 0, 1, ... its description and its entry list
WalkRequest(slave, n) ==
    IF n = 1 THEN Req("read_od_list", slave, <<0, 0>>)
    ELSE IF n % 2 = 0 THEN Req("read_od_description", slave, <<(n - 2) \div 2, 0>>)
    ELSE Req("read_oe", slave, <<(n - 3) \div 2, 0>>)

\* C21: read_od_list asks for the object list first and then, item by item
\* in list order, for the description before the entry list; the first
\* request that fails is the last one made, the error names its item, and
\* the call returns no dictionary, so nothing of the failing item is kept.
C21_WalkStopsAtFirstFailure ==
    last.op = "read_od_list" =>
        LET fault == bus[last.slave + 1].od_fail
            made == last.requests
        IN  /\ made # <<>>
            /\ \A n \in DOMAIN made : made[n] = WalkRequest(last.slave, n)
            /\ fault.kind = "none" =>
                  /\ last.res.k = "Ok"
                  /\ Len(made) = 1 + 2 * Len(OdObjects)
                  /\ \A i \in DOMAIN OdObjects :
                        OdObjects[i].index \in DOMAIN last.res.v.objects
            /\ fault.kind = "list" =>
                  /\ last.res = Err(<<"ReadOdList", last.slave>>)
                  /\ Len(made) = 1
            /\ fault.kind = "desc" =>
                  /\ last.res = Err(<<"ReadOdDesc", fault.item>>)
                  /\ Len(made) = 2 + 2 * fault.item
            /\ fault.kind = "oe" =>
                  /\ last.res = Err(<<"ReadOeList", fault.item>>)
                  /\ Len(made) = 3 + 2 * fault.item

\* the walk of the slave whose entry list of item 1 fails: five requests
C21_Witness ==
    /\ last.op = "read_od_list"
    /\ last.res = Err(<<"ReadOeList", 1>>)
    /\ Len(last.requests) = 5
    /\ last.requests[5] = Req("read_oe", last.slave, <<1, 0>>)

----------------------------------------------------------------------------
(* The access rights of an entry                                           *)

\* bit k of the word x
BitOf(x, k) == (x \div 2^k) % 2 = 1

\* the access a read flag and a write flag stand for
AccessOf(read, write) ==
    IF read THEN (IF write THEN "ReadWrite" ELSE "ReadOnly")
    ELSE (IF write THEN "WriteOnly" ELSE "Unknown")

\* C22: access_from_u16(x) takes the pre-op access from bits 0 (read) and 3
\* (write) of x, the safe-op access from bits 1 and 4 and the op access from
\* bits 2 and 5; read alone is ReadOnly, write alone WriteOnly, both
\* ReadWrite, neither Unknown; bits 6 and above change nothing.
C22_AccessFromBits ==
    Returned("access_from_u16") =>
        /\ call.res.v.pre_op = AccessOf(BitOf(call.x, 0), BitOf(call.x, 3))
        /\ call.res.v.safe_op = AccessOf(BitOf(call.x, 1), BitOf(call.x, 4))
        /\ call.res.v.op = AccessOf(BitOf(call.x, 2), BitOf(call.x, 5))
        /\ call.res.v = access_from_u16(call.x % 64)

\* 0xAA29: bits 0, 3 and 5 of the low six, and high bits set
C22_Witness ==
    /\ Returned("access_from_u16")
    /\ call.x = 43561
    /\ call.res.v = [pre_op |-> "ReadWrite", safe_op |-> "Unknown", op |-> "WriteOnly"]

----------------------------------------------------------------------------
(* The order of the requests of the PDO resolver                           *)

IsPrefix(a, b) == Len(a) <= Len(b) /\ \A i \in DOMAIN a : a[i] = b[i]

IsInfix(a, b) ==
    \E k \in 0..(Len(b) - Len(a)) : \A i \in DOMAIN a : b[k + i] = a[i]

IsSuffix(a, b) ==
    Len(a) <= Len(b) /\ \A i \in DOMAIN a : b[Len(b) - Len(a) + i] = a[i]

RECURSIVE Flatten(_)
Flatten(q) == IF q = <<>> THEN <<>> ELSE Head(q) \o Flatten(Tail(q))

\* the process-data sync managers of the slave at position slave
PdSms(slave) ==
    { sm \in 2..(1 + Len(bus[slave + 1].types)) :
        bus[slave + 1].types[sm - 1] \in PdSmTypeIds }

\* what the slave holds at the SDO e
Held(slave, e) == DeviceSdo(bus[slave + 1], e)[1]

\* the SDOs of the assignment of sync manager sm in the order of the
\* resolution: the PDO count, then for every PDO its index, its entry count
\* and its entries
AssignOrder(slave, sm) ==
    LET obj == SDO_IDX_PDO_ASSIGN + sm
    IN  << <<obj, 0>> >>
        \o Flatten([p \in 1..Held(slave, <<obj, 0>>) |->
              LET pdo_index == Held(slave, <<obj, p>>)
              IN  << <<obj, p>>, <<pdo_index, 0>> >>
                  \o [e \in 1..Held(slave, <<pdo_index, 0>>) |-> <<pdo_index, e>>]])

\* C23: si_pdo_assign reads (0x1C10+sm, 0), then for every sub-index p up to
\* that count (0x1C10+sm, p), (pdo_index, 0) and (pdo_index, e) for every e
\* up to that count, in this order.  The assignment it returns has the PDOs
\* in sub-index order, each with its entries in sub-index order, and the
\* first read that fails ends it with ReadSdo of the slave and of that entry.
C23_AssignmentReadInOrder ==
    last.op = "auto_config" =>
        \A slave \in 0..(slave_count - 1) : \A sm \in PdSms(slave) :
            LET obj == SDO_IDX_PDO_ASSIGN + sm
                r == si_pdo_assign(slave, sm, "Outputs")
                made == si_pdo_assign_requests(slave, sm)
                order == AssignOrder(slave, sm)
                failing == { n \in DOMAIN order : order[n] \in bus[slave + 1].sdo_fail }
            IN  /\ Len(made) <= Len(order)
                /\ \A n \in DOMAIN made : made[n] = Req("sdo_read", slave, order[n])
                /\ failing = {} =>
                      /\ r.k = "Ok"
                      /\ Len(made) = Len(order)
                      /\ Len(r.v.pdos) = Held(slave, <<obj, 0>>)
                      /\ \A p \in DOMAIN r.v.pdos :
                            /\ r.v.pdos[p].idx = Held(slave, <<obj, p>>)
                            /\ Len(r.v.pdos[p].entries)
                                  = Held(slave, <<r.v.pdos[p].idx, 0>>)
                            /\ \A e \in DOMAIN r.v.pdos[p].entries :
                                  LET entry == r.v.pdos[p].entries[e]
                                  IN  Packed(entry.sdo[1], entry.sdo[2], entry.bit_len)
                                         = Held(slave, <<r.v.pdos[p].idx, e>>)
                      /\ last.res.k = "Ok" => IsInfix(made, last.requests)
                /\ failing # {} =>
                      /\ \A n \in failing : Len(made) <= n
                      /\ Len(made) \in failing
                      /\ r = Err(<<"ReadSdo", slave, order[Len(made)]>>)
                      /\ last.res = r => IsSuffix(made, last.requests)

\* the slave whose SM2 holds the PDOs 0x1600 and 0x1601: eight reads
C23_Witness ==
    /\ last.op = "auto_config"
    /\ last.res.k = "Ok"
    /\ Len(bus) = 1
    /\ PdSms(0) = {2}
    /\ si_pdo_assign_requests(0, 2)
          = [n \in 1..8 |->
                Req("sdo_read", 0,
                    << <<7186, 0>>, <<7186, 1>>, <<5632, 0>>, <<5632, 1>>,
                       <<7186, 2>>, <<5633, 0>>, <<5633, 1>>, <<5633, 2>> >>[n])]
    /\ IsInfix(si_pdo_assign_requests(0, 2), last.requests)
    /\ Len(pdo_mapping[1][1].pdos) = 2

----------------------------------------------------------------------------
(* The packed descriptor of a PDO entry                                    *)

\* C24: pdo_entry_info takes the bit length from the low byte of the packed
\* descriptor d, the subindex from the next byte and the index from the high
\* 16 bits, so that index * 2^16 + subindex * 2^8 + bit length is d.
C24_DescriptorFields ==
    Returned("pdo_entry_info") =>
        LET d == call.data
            info == call.res.v
        IN  /\ info.bit_len = d % 2^8
            /\ info.sdo[2] = (d \div 2^8) % 2^8
            /\ info.sdo[1] = d \div 2^16
            /\ info.sdo[1] * 2^16 + info.sdo[2] * 2^8 + info.bit_len = d

\* 0x7010_0601: 0x7010:06, one bit
C24_Witness ==
    /\ Returned("pdo_entry_info")
    /\ call.data = 1880098305
    /\ call.res.v = [sdo |-> <<28688, 6>>, bit_len |-> 1]

----------------------------------------------------------------------------
(* The sync manager types of a slave                                       *)

\* the number of sync managers coe_pdo_info hands to sm_types for a slave
\* that reports obj_cnt objects in 0x1C00:0
SmCnt(obj_cnt) == IF obj_cnt - 1 > MAX_SM_CNT THEN MAX_SM_CNT ELSE obj_cnt - 1

\* the name of the type the engine holds for sync manager sm of a slave
SmTypeOf(slave, sm) == SmTypeFromU8(DeviceSmType(bus[slave + 1])[sm + 1]).v

\* the pairs of the sync managers from..to in ascending order, without
\* sync manager 2 when its type is MbxRd
RECURSIVE SmPairs(_, _, _)
SmPairs(slave, from, to) ==
    IF from > to THEN <<>>
    ELSE (IF from = 2 /\ SmTypeOf(slave, 2) = "MbxRd" THEN <<>>
          ELSE << <<from, SmTypeOf(slave, from)>> >>)
         \o SmPairs(slave, from + 1, to)

\* C25: sm_types returns, in ascending order, the pair of sync manager and
\* type of every sync manager 2..=sm_cnt, except that sync manager 2 is left
\* out when its type is MbxRd; that is no error, and an MbxRd at another
\* index is kept.
C25_SmTypesKeepsAllButBuggySm2 ==
    last.op = "auto_config" =>
        \A slave \in 0..(slave_count - 1) :
            LET obj_cnt == sm_comm_type_sdo(slave, 0)
            IN  (obj_cnt.k = "Ok" /\ obj_cnt.v > 2) =>
                    LET r == sm_types(slave_count, slave, SmCnt(obj_cnt.v))
                    IN  /\ r.k = "Ok"
                        /\ r.v = SmPairs(slave, 2, SmCnt(obj_cnt.v))

----------------------------------------------------------------------------
(* The steps of a configuration pass                                       *)

\* the step of auto_config a request belongs to
Step(req) ==
    CASE req.fn = "config_init" -> 1
      [] req.fn = "config_dc" -> 2
      [] req.fn = "config_map_group" -> 3
      [] req.fn \in {"read_od_list", "read_od_description", "read_oe"} -> 4
      [] req.fn = "sdo_read" -> 5

\* the errors of a step
StepErrors(req) ==
    CASE req.fn = "config_init" -> {"NoFrame", "OtherFrame", "NoSlaves"}
      [] req.fn = "config_dc" -> {"CfgDc"}
      [] req.fn = "config_map_group" -> {"CfgMapGroup"}
      [] req.fn = "read_od_list" -> {"ReadOdList"}
      [] req.fn = "read_od_description" -> {"ReadOdDesc"}
      [] req.fn = "read_oe" -> {"ReadOeList"}
      [] req.fn = "sdo_read" -> {"ReadSdo", "InvalidSmType"}

\* the dictionary walk of the slave at position p is complete among the
\* first j requests made
WalkedBefore(made, p, j) ==
    /\ read_od_list(p).k = "Ok"
    /\ Cardinality({ i \in 1..j : Step(made[i]) = 4 /\ made[i].slave = p })
          = 1 + 2 * Len(OdObjects)

\* C26: auto_config calls config_init, config_dc, config_map_group, then
\* walks the object dictionary of every slave, then resolves the PDOs of
\* every slave, in this order; a step that fails returns its own error and
\* is the last one made, so no PDO SDO of a slave is read before the
\* dictionary of that slave has been built.
C26_StepsInOrder ==
    last.op = "auto_config" =>
        LET made == last.requests
        IN  /\ made # <<>>
            /\ \A i \in DOMAIN made : i <= 3 => Step(made[i]) = i
            /\ \A i, j \in DOMAIN made :
                  i < j => /\ Step(made[i]) <= Step(made[j])
                           /\ Step(made[j]) <= 3 => Step(made[i]) < Step(made[j])
            /\ \A j \in DOMAIN made :
                  Step(made[j]) = 5 =>
                      \A p \in 0..(Len(bus) - 1) : WalkedBefore(made, p, j)
            /\ last.res.k = "Err" => last.res.e[1] \in StepErrors(made[Len(made)])
            /\ last.res.k = "Ok" => Step(made[Len(made)]) = 5

\* a mailbox-only slave and a slave with process data: three engine steps,
\* two walks of eleven requests, then the first SDO read
C26_Witness ==
    /\ last.op = "auto_config"
    /\ last.res.k = "Ok"
    /\ Len(bus) = 2
    /\ Len(last.requests) > 26
    /\ last.requests[25].fn = "read_oe"
    /\ last.requests[25].slave = 1
    /\ last.requests[26] = Req("sdo_read", 0, <<SDO_IDX_SM_COMM_TYPE, 0>>)

----------------------------------------------------------------------------
(* Entries without bits                                                    *)

\* the entries of the list that have bits
WithBits(es) == SelectSeq(es, LAMBDA e : e.bit_len # 0)

\* C27: process_data does not decode an entry whose bit length is 0: it
\* returns no pair for it and does not panic on it, and the pairs of the
\* other entries are those of the list without it.
C27_ZeroBitEntryIsSkipped ==
    LET es == FlatEntries(call.pdos)
    IN  (/\ Returned("process_data")
         /\ \E k \in DOMAIN es : es[k].bit_len = 0
         /\ \A k \in 1..Len(es) : EntrySlice(call.data, es, k).in_range)
            => /\ call.res.k = "Ok"
               /\ SamePairList(call.res.v,
                               DecodedFrom(call.data, WithBits(es), call.dict, 1))

----------------------------------------------------------------------------
(* Whose PDO map a position holds                                          *)

\* C28: after a successful auto_config the PDO mapping cached at every
\* slave position p is the list of assignments resolved from the slave at p
\* (none, or an empty list, for a slave of two sync manager types or fewer),
\* on every bus.
C28_MappingOfPositionIsOwn ==
    (last.op = "auto_config" /\ last.res.k = "Ok") =>
        \A p \in 0..(slave_count - 1) :
            LET own == slave_pdo_mapping(slave_count, p).v
            IN  IF own = <<>> THEN PdoMappingGet(p) \in { <<>>, << <<>> >> }
                ELSE PdoMappingGet(p) = own

----------------------------------------------------------------------------
(* Writing an output entry and decoding the outputs again                  *)

\* what process_data decodes from a slave's outputs with the PDO list and
\* the dictionary set_pdo_value used for the write
OutputsDecoded(outs) ==
    process_data(outs[last'.slave + 1],
                 PdoMappingOutputs(last'.slave)[1].pdos,
                 SdosGet(last'.slave))

\* the value is as long as the entry it was written to
FitsTarget ==
    Len(value_to_bytes(last'.v).v) = byte_cnt(TargetEntries[Target].bit_len)

\* the value is of the data type the dictionary gives the entry
\* (set_pdo_value takes any value: a Bool written to a U8 entry reads back
\* as a U8)
TypedAsTarget == EntryDataType(SdosGet(last'.slave), last'.idx) = last'.v.t

\* C29: when set_pdo_value(slave, e, v) returns Ok and v encodes to
\* ceil(bit_len(e) / 8) bytes, process_data of the slave's outputs with the
\* same PDO list afterwards yields v for e and, for every other mapped output
\* entry, the value it yielded before the write, on every PDO list, those
\* that mix Bool entries with wider entries included.  (Stated for a v of
\* the entry's data type.)
C29_WriteThenReadBack ==
    [][(WroteOk /\ FitsTarget /\ TypedAsTarget) =>
          LET before == OutputsDecoded(outputs)
              after == OutputsDecoded(outputs')
          IN  /\ ~after.panic
              /\ \E k \in DOMAIN after.values : after.values[k][1] = last'.idx
              /\ ~before.panic => Len(after.values) = Len(before.values)
              /\ \A k \in DOMAIN after.values :
                    IF after.values[k][1] = last'.idx
                    THEN SameValue(after.values[k][2], last'.v)
                    ELSE ~before.panic =>
                            /\ before.values[k][1] = after.values[k][1]
                            /\ SameValue(after.values[k][2], before.values[k][2])
      ]_vars

\* C29 for the value itself only: a written value whose type is the data
\* type of the entry is what process_data yields for the entry afterwards
C29_WrittenValueReadsBack ==
    [][(WroteOk /\ FitsTarget /\ TypedAsTarget) =>
          LET after == OutputsDecoded(outputs')
          IN  /\ ~after.panic
              /\ \A k \in DOMAIN after.values :
                    after.values[k][1] = last'.idx
                        => SameValue(after.values[k][2], last'.v)
      ]_vars

----------------------------------------------------------------------------
(* The slices process_data takes                                           *)

\* the bit lengths of all entries of the list, summed
TotalBits(es) == BitsBefore(es, Len(es) + 1)

\* C30: process_data never slices outside the data buffer when the summed
\* bit lengths of the mapped entries are at most 8 * len(data): for every
\* entry floor(S / 8) + ceil(bit_len / 8) <= len(data), S being the summed
\* bit lengths of the entries before it, aligned or not; a call that does
\* not return then ended in the decode of an entry, not in a slice.
C30_SlicesStayInside ==
    LET es == FlatEntries(call.pdos)
    IN  (Returned("process_data") /\ TotalBits(es) <= 8 * Len(call.data))
            => /\ \A k \in 1..Len(es) :
                     (BitsBefore(es, k) \div 8) + ((es[k].bit_len + 7) \div 8)
                         <= Len(call.data)
               /\ call.res.k # "Ok" =>
                     \E k \in 1..Len(es) :
                         EntryValue(call.data, es, call.dict, k).k = "Panic"

\* a list read to its end whose last slice, of an entry that starts inside a
\* byte, ends with the last byte of the buffer
C30_Witness ==
    LET es == FlatEntries(call.pdos)
    IN  /\ Returned("process_data")
        /\ call.res.k = "Ok"
        /\ call.data # <<>>
        /\ TotalBits(es) <= 8 * Len(call.data)
        /\ \E k \in 1..Len(es) :
              /\ BitsBefore(es, k) % 8 # 0
              /\ (BitsBefore(es, k) \div 8) + ((es[k].bit_len + 7) \div 8)
                     = Len(call.data)
        /\ \E k \in 1..Len(es) :
              BitsBefore(es, k) % 8 # 0 /\ es[k].bit_len > 1

====
